---- MODULE Spec2Model ----
(***************************************************************************)
(* Model of the embedded-workflow-editor metadata codecs:                  *)
(*   - the TIFF/IFD engine and the WEBP codec (src/app/utils/exif-flac.ts, *)
(*     lines 268-674),                                                     *)
(*   - the FLAC codec (src/app/utils/exif-flac.ts, lines 1-266),           *)
(*   - the MP4 codec (src/app/utils/exif-mp4.ts).                          *)
(*                                                                         *)
(* A file is a sequence of bytes (0..255), indexed from 1 in TLA+ and from *)
(* 0 in the source; the operators At, Slice and the U16/U32 readers take   *)
(* the source's 0-based offsets.  A JavaScript string is a sequence of     *)
(* UTF-16 code units.  A Record<string,string> is a sequence of            *)
(* <<key, value>> pairs kept in the order in which JavaScript enumerates   *)
(* own properties.  A call that throws yields [ok |-> FALSE, err |-> ...]. *)
(***************************************************************************)
EXTENDS Integers, Sequences, FiniteSets, TLC

VARIABLES
  buf,       \* the current file: the bytes the caller holds
  prev,      \* the file handed to the last set call
  rec,       \* the record the caller handed to the last set call
  recAfter,  \* the caller's record object after that call returned
  outcome,   \* "none", "ok", or the error the last set call threw
  got,       \* result of the last get call on buf
  op,        \* the last operation: "init", "set", "get", or the name of the
             \* codec function called where any codec is handed any buffer
  nsets,     \* number of set calls so far
  written,   \* workflow values handed to set calls before the last one
  tiffArgs,  \* what the last encodeTIFFBlock call was handed
  tiffData,  \* the TIFF block at hand: a Uint8Array (buffer, offset, length)
  decoded,   \* result of the last decodeTIFFBlock call on tiffData
  tiffOp     \* the last call of the TIFF engine: "init", "encode", "decode"

tiffVars == <<tiffArgs, tiffData, decoded, tiffOp>>

vars == <<buf, prev, rec, recAfter, outcome, got, op, nsets, written,
          tiffArgs, tiffData, decoded, tiffOp>>

----------------------------------------------------------------------------
(* Bounds of the model.                                                    *)

\* Number of successive set calls on one file.
MaxSets == 2

\* Length of the long opaque value (crosses the one-byte length boundary).
BigLen == 260

----------------------------------------------------------------------------
(* Bytes, slices and integer fields.                                       *)

Min(a, b) == IF a < b THEN a ELSE b
Max(a, b) == IF a > b THEN a ELSE b

Range(s) == {s[i] : i \in 1..Len(s)}

\* Byte at 0-based offset i.
At(b, i) == b[i + 1]

\* TypedArray.prototype.slice / String.prototype.slice: negative indices count
\* from the end, both ends are clamped to the length.
Slice(b, s, e) ==
  LET n  == Len(b)
      s1 == IF s < 0 THEN Max(n + s, 0) ELSE Min(s, n)
      e1 == IF e < 0 THEN Max(n + e, 0) ELSE Min(e, n)
  IN  IF e1 <= s1 THEN <<>> ELSE SubSeq(b, s1 + 1, e1)

SliceFrom(b, s) == Slice(b, s, Len(b))

\* new Uint8Array(n): n zero bytes.
Zeros(n) == [i \in 1..n |-> 0]

\* A Uint8Array or a DataView: byteLength bytes of an ArrayBuffer, from
\* byteOffset on.
ViewOf(buffer, byteOffset, byteLength) ==
  [buffer |-> buffer, byteOffset |-> byteOffset, byteLength |-> byteLength]

\* An array that has its buffer to itself: what slice, concatenation and
\* new Uint8Array(arrayBuffer) give.
Whole(bytes) == ViewOf(bytes, 0, Len(bytes))

\* The bytes of a view.
Seen(v) == SubSeq(v.buffer, v.byteOffset + 1, v.byteOffset + v.byteLength)

\* A DataView read of n bytes at offset off is in range.
CanRead(b, off, n) == off >= 0 /\ off + n <= Len(b)

U16Bytes(n, le) ==
  LET lo == n % 256
      hi == (n \div 256) % 256
  IN  IF le THEN <<lo, hi>> ELSE <<hi, lo>>

U32Bytes(n, le) ==
  LET b0 == n % 256
      b1 == (n \div 256) % 256
      b2 == (n \div 65536) % 256
      b3 == (n \div 16777216) % 256
  IN  IF le THEN <<b0, b1, b2, b3>> ELSE <<b3, b2, b1, b0>>

GetU16(b, off, le) ==
  IF le THEN At(b, off) + 256 * At(b, off + 1)
        ELSE At(b, off + 1) + 256 * At(b, off)

GetU32(b, off, le) ==
  IF le THEN At(b, off) + 256 * At(b, off + 1) + 65536 * At(b, off + 2)
               + 16777216 * At(b, off + 3)
        ELSE At(b, off + 3) + 256 * At(b, off + 2) + 65536 * At(b, off + 1)
               + 16777216 * At(b, off)

\* concatUint8Arrays / concatenateUint8Arrays: the parts in order.
RECURSIVE Concat(_)
Concat(parts) ==
  IF parts = <<>> THEN <<>> ELSE Head(parts) \o Concat(Tail(parts))

Ok(v) == [ok |-> TRUE, val |-> v]
Throw(e) == [ok |-> FALSE, err |-> e]

----------------------------------------------------------------------------
(* JavaScript strings: TextEncoder, TextDecoder, fromCharCode, trim.       *)

IsHighSurrogate(u) == u >= 55296 /\ u <= 56319
IsLowSurrogate(u) == u >= 56320 /\ u <= 57343

AllAscii(s) == \A i \in 1..Len(s) : s[i] < 128

\* UTF-8 bytes of the code point cp.
Utf8OfCodePoint(cp) ==
  IF cp < 128 THEN <<cp>>
  ELSE IF cp < 2048 THEN <<192 + cp \div 64, 128 + (cp % 64)>>
  ELSE IF cp < 65536
    THEN <<224 + cp \div 4096, 128 + ((cp \div 64) % 64), 128 + (cp % 64)>>
  ELSE <<240 + cp \div 262144, 128 + ((cp \div 4096) % 64),
         128 + ((cp \div 64) % 64), 128 + (cp % 64)>>

RECURSIVE Utf8Encode(_, _)
Utf8Encode(s, i) ==
  IF i > Len(s) THEN <<>>
  ELSE LET u == s[i] IN
    IF IsHighSurrogate(u) /\ i < Len(s) /\ IsLowSurrogate(s[i + 1])
      THEN Utf8OfCodePoint(65536 + (u - 55296) * 1024 + (s[i + 1] - 56320))
             \o Utf8Encode(s, i + 2)
    ELSE IF IsHighSurrogate(u) \/ IsLowSurrogate(u)
      THEN <<239, 191, 189>> \o Utf8Encode(s, i + 1)
    ELSE Utf8OfCodePoint(u) \o Utf8Encode(s, i + 1)

\* new TextEncoder().encode(s)
TextEncode(s) == IF AllAscii(s) THEN s ELSE Utf8Encode(s, 1)

\* UTF-16 code units of the code point cp.
Utf16OfCodePoint(cp) ==
  IF cp < 65536 THEN <<cp>>
  ELSE <<55296 + (cp - 65536) \div 1024, 56320 + ((cp - 65536) % 1024)>>

\* The WHATWG UTF-8 decoder: need = continuation bytes still expected,
\* lo..hi = the range allowed for the next continuation byte.
RECURSIVE Utf8Decode(_, _, _, _, _, _)
Utf8Decode(b, i, cp, need, lo, hi) ==
  IF i > Len(b) THEN (IF need > 0 THEN <<65533>> ELSE <<>>)
  ELSE LET x == b[i] IN
    IF need = 0 THEN
      IF x < 128 THEN <<x>> \o Utf8Decode(b, i + 1, 0, 0, 128, 191)
      ELSE IF x >= 194 /\ x <= 223
        THEN Utf8Decode(b, i + 1, x - 192, 1, 128, 191)
      ELSE IF x >= 224 /\ x <= 239
        THEN Utf8Decode(b, i + 1, x - 224, 2,
                        IF x = 224 THEN 160 ELSE 128,
                        IF x = 237 THEN 159 ELSE 191)
      ELSE IF x >= 240 /\ x <= 244
        THEN Utf8Decode(b, i + 1, x - 240, 3,
                        IF x = 240 THEN 144 ELSE 128,
                        IF x = 244 THEN 143 ELSE 191)
      ELSE <<65533>> \o Utf8Decode(b, i + 1, 0, 0, 128, 191)
    ELSE IF x < lo \/ x > hi
      THEN <<65533>> \o Utf8Decode(b, i, 0, 0, 128, 191)
    ELSE IF need = 1
      THEN Utf16OfCodePoint(cp * 64 + (x - 128))
             \o Utf8Decode(b, i + 1, 0, 0, 128, 191)
    ELSE Utf8Decode(b, i + 1, cp * 64 + (x - 128), need - 1, 128, 191)

\* new TextDecoder().decode(b): UTF-8, a leading byte order mark is dropped.
HasBom(b) == Len(b) >= 3 /\ SubSeq(b, 1, 3) = <<239, 187, 191>>

TextDecode(b) ==
  IF AllAscii(b) THEN b
  ELSE Utf8Decode(b, IF HasBom(b) THEN 4 ELSE 1, 0, 0, 128, 191)

\* String.prototype.indexOf(c) for a one-unit string c: 0-based, -1 if absent.
IndexOf(s, c) ==
  IF \E i \in 1..Len(s) : s[i] = c
    THEN (CHOOSE i \in 1..Len(s) : s[i] = c /\ \A j \in 1..(i - 1) : s[j] # c) - 1
    ELSE -1

\* White space and line terminators removed by String.prototype.trim.
IsJsSpace(u) ==
  \/ u \in {9, 10, 11, 12, 13, 32, 160, 5760, 8232, 8233, 8239, 8287, 12288, 65279}
  \/ (u >= 8192 /\ u <= 8202)

Trim(s) ==
  IF \A i \in 1..Len(s) : IsJsSpace(s[i]) THEN <<>>
  ELSE LET a == CHOOSE i \in 1..Len(s) :
                  ~IsJsSpace(s[i]) /\ \A j \in 1..(i - 1) : IsJsSpace(s[j])
           z == CHOOSE i \in 1..Len(s) :
                  ~IsJsSpace(s[i]) /\ \A j \in (i + 1)..Len(s) : IsJsSpace(s[j])
       IN  SubSeq(s, a, z)

----------------------------------------------------------------------------
(* Record<string,string>: own properties in enumeration order.             *)

\* The value read for a property that is not there.
Undefined == <<-1>>

IsDigits(k) == Len(k) >= 1 /\ \A i \in 1..Len(k) : k[i] >= 48 /\ k[i] <= 57

\* "4294967294", the largest array index (2^32 - 2).
MaxArrayIndex == <<52, 50, 57, 52, 57, 54, 55, 50, 57, 52>>

\* a < b for two digit strings without leading zeros: the shorter one is the
\* smaller, two of the same length compare digit by digit from the left.
IndexLess(a, b) ==
  \/ Len(a) < Len(b)
  \/ /\ Len(a) = Len(b)
     /\ \E i \in 1..Len(a) : a[i] < b[i] /\ \A j \in 1..(i - 1) : a[j] = b[j]

\* A canonical array index ("0", "7", "42", ... "4294967294"): such keys are
\* enumerated first, in ascending numeric order.
IsArrayIndex(k) ==
  IsDigits(k) /\ (Len(k) = 1 \/ k[1] # 48) /\ ~IndexLess(MaxArrayIndex, k)

\* "__proto__": assigning a string under this name sets no property.
ProtoName == <<95, 95, 112, 114, 111, 116, 111, 95, 95>>

\* The names every object inherits from Object.prototype.
ObjectPrototypeNames ==
  {<<99, 111, 110, 115, 116, 114, 117, 99, 116, 111, 114>>,
   <<95, 95, 100, 101, 102, 105, 110, 101, 71, 101, 116, 116, 101, 114, 95, 95>>,
   <<95, 95, 100, 101, 102, 105, 110, 101, 83, 101, 116, 116, 101, 114, 95, 95>>,
   <<104, 97, 115, 79, 119, 110, 80, 114, 111, 112, 101, 114, 116, 121>>,
   <<95, 95, 108, 111, 111, 107, 117, 112, 71, 101, 116, 116, 101, 114, 95, 95>>,
   <<95, 95, 108, 111, 111, 107, 117, 112, 83, 101, 116, 116, 101, 114, 95, 95>>,
   <<105, 115, 80, 114, 111, 116, 111, 116, 121, 112, 101, 79, 102>>,
   <<112, 114, 111, 112, 101, 114, 116, 121, 73, 115, 69, 110, 117, 109, 101,
     114, 97, 98, 108, 101>>,
   <<116, 111, 83, 116, 114, 105, 110, 103>>,
   <<118, 97, 108, 117, 101, 79, 102>>,
   <<95, 95, 112, 114, 111, 116, 111, 95, 95>>,
   <<116, 111, 76, 111, 99, 97, 108, 101, 83, 116, 114, 105, 110, 103>>}

\* The member of Object.prototype found under the name k: a function, or the
\* prototype object itself under "__proto__".  It is not a string.
Inherited(k) == <<-3>> \o k

IsInherited(v) == Len(v) >= 1 /\ v[1] = -3

\* r has an own property k.
RecOwns(r, k) == \E i \in 1..Len(r) : r[i][1] = k

\* r[k]: the own property, or else the member inherited under that name.
RecGet(r, k) ==
  IF RecOwns(r, k) THEN r[CHOOSE i \in 1..Len(r) : r[i][1] = k][2]
  ELSE IF k \in ObjectPrototypeNames THEN Inherited(k)
  ELSE Undefined

\* r[k] is neither null nor undefined (the left side of r[k] ?? ... is taken).
RecHas(r, k) == RecGet(r, k) # Undefined

\* The name in the source text of the native function found under k.
NativeName(k) ==
  IF k = <<99, 111, 110, 115, 116, 114, 117, 99, 116, 111, 114>>
    THEN <<79, 98, 106, 101, 99, 116>>
    ELSE k

\* `${v}`: a string as it is, an inherited function as its source text
\* "function name() { [native code] }", the prototype object as
\* "[object Object]".
TemplateText(v) ==
  IF ~IsInherited(v) THEN v
  ELSE IF Tail(v) = ProtoName
    THEN <<91, 111, 98, 106, 101, 99, 116, 32, 79, 98, 106, 101, 99, 116, 93>>
  ELSE <<102, 117, 110, 99, 116, 105, 111, 110, 32>> \o NativeName(Tail(v))
         \o <<40, 41, 32, 123, 32, 91, 110, 97, 116, 105, 118, 101, 32,
              99, 111, 100, 101, 93, 32, 125>>

RecKeys(r) == [i \in 1..Len(r) |-> r[i][1]]

RecKeySet(r) == {r[i][1] : i \in 1..Len(r)}

\* r[k] = v: an existing property keeps its place; a new array index goes
\* among the array indices in numeric order; any other new key goes last.
RecSet(r, k, v) ==
  IF k = ProtoName THEN r
  ELSE IF RecOwns(r, k)
    THEN [i \in 1..Len(r) |-> IF r[i][1] = k THEN <<k, v>> ELSE r[i]]
  ELSE IF IsArrayIndex(k)
    THEN LET before == {i \in 1..Len(r) :
                          IsArrayIndex(r[i][1]) /\ IndexLess(r[i][1], k)}
             n == Cardinality(before)
         IN  SubSeq(r, 1, n) \o <<<<k, v>>>> \o SubSeq(r, n + 1, Len(r))
  ELSE Append(r, <<k, v>>)

\* delete r[k]
RecDelete(r, k) == SelectSeq(r, LAMBDA e : e[1] # k)

\* Assign the entries of src into dst, in src's enumeration order.
RECURSIVE RecAssignAll(_, _)
RecAssignAll(dst, src) ==
  IF src = <<>> THEN dst
  ELSE RecAssignAll(RecSet(dst, Head(src)[1], Head(src)[2]), Tail(src))

\* The record a caller writes as an object literal { k1: v1, k2: v2, ... }.
RecordOf(pairs) == RecAssignAll(<<>>, pairs)

----------------------------------------------------------------------------
(* The TIFF/IFD engine.                                                    *)

\* EXIF_TAGS.Make: new keys get the tags Make, Make - 1, Make - 2, ...
EXIF_TAGS_Make == 271

\* The IFD entry type of a NUL-terminated ASCII string.
TypeAscii == 2

II == <<73, 73>>
MM == <<77, 77>>

\* A predicted offset that is left where the last value ended.
Unaligned(predictOffset) == predictOffset

\* predictOffset after "if (predictOffset % 2) predictOffset += 1".
WordPadded(predictOffset) == predictOffset + (predictOffset % 2)

\* The ascii of an entry of type 2: the text at the stored offset, or, when
\* that text holds a NUL, the text at the predicted offset.
AsciiOf(decodedValue, predictValue) ==
  IF 0 \notin Range(decodedValue) THEN decodedValue
  ELSE TextDecode(Slice(predictValue, 0, -1))

\* ...(ascii && { ascii }): an undefined or empty ascii is left out.
AsciiProperty(ascii) == IF ascii = <<>> THEN Undefined ELSE ascii

\* The object pushed on entries.
IFDEntryOutput(tag, type, count, offset, value, predictValue, predictOffset) ==
  [tag |-> tag, type |-> type, count |-> count, value |-> value,
   offset |-> offset, predictValue |-> predictValue,
   predictOffset |-> predictOffset,
   ascii |-> IF type # TypeAscii THEN Undefined
             ELSE AsciiProperty(AsciiOf(TextDecode(Slice(value, 0, -1)),
                                        predictValue))]

\* The entry whose count and offset fields were read as count and offset:
\* tag and type are read through view, the values are sliced from block.
EntryOf(view, block, isLE, entryOffset, count, offset, predictOffset) ==
  IFDEntryOutput(GetU16(view, entryOffset, isLE),
                 GetU16(view, entryOffset + 2, isLE),
                 count, offset,
                 Slice(block, offset, offset + count),
                 Slice(block, predictOffset, predictOffset + count),
                 predictOffset)

\* One turn of the loop, the count field already read.
RECURSIVE DecodeEntries(_, _, _, _, _, _, _, _)
DecodeEntry(view, block, isLE, ifdOffset, numEntries, i, predictOffset, acc, count) ==
  DecodeEntries(view, block, isLE, ifdOffset, numEntries, i + 1,
                predictOffset + count,
                Append(acc, EntryOf(view, block, isLE, ifdOffset + 2 + i * 12, count,
                                    GetU32(view, ifdOffset + 2 + i * 12 + 8, isLE),
                                    predictOffset)))

\* The loop of decodeTIFFBlock over the entry table: i is the 0-based entry
\* index, predict the running predicted offset of the next value.
DecodeEntries(view, block, isLE, ifdOffset, numEntries, i, predict, acc) ==
  IF i >= numEntries
    THEN [ok |-> TRUE, entries |-> acc, predictOffset |-> predict]
  ELSE IF ~CanRead(view, ifdOffset + 2 + i * 12, 12) THEN Throw("RangeError")
  ELSE DecodeEntry(view, block, isLE, ifdOffset, numEntries, i,
                   WordPadded(predict), acc,
                   GetU32(view, ifdOffset + 2 + i * 12 + 4, isLE))

\* The object decodeTIFFBlock returns once the loop r has ended.
DecodedBlock(block, isLE, ifdOffset, numEntries, r) ==
  IF ~r.ok THEN r
  ELSE Ok([isLittleEndian |-> isLE, ifdOffset |-> ifdOffset,
           numEntries |-> numEntries, entries |-> r.entries,
           tailPadding |-> Len(block) - r.predictOffset])

DecodeIfd(view, block, isLE, ifdOffset, numEntries) ==
  DecodedBlock(block, isLE, ifdOffset, numEntries,
               DecodeEntries(view, block, isLE, ifdOffset, numEntries, 0,
                             ifdOffset + 2 + numEntries * 12 + 4, <<>>))

DecodeHeader(view, block, isLE, ifdOffset) ==
  IF ~CanRead(view, ifdOffset, 2) THEN Throw("RangeError")
  ELSE DecodeIfd(view, block, isLE, ifdOffset, GetU16(view, ifdOffset, isLE))

DecodeOrder(view, block, isLE) ==
  IF ~CanRead(view, 4, 4) THEN Throw("RangeError")
  ELSE DecodeHeader(view, block, isLE, GetU32(view, 4, isLE))

\* decodeTIFFBlock(block), block a Uint8Array: the header and the entry table
\* are read through new DataView(block.buffer), that is from the start of the
\* buffer whatever block.byteOffset is; the byte order mark and the values are
\* taken from block itself.
decodeTIFFBlock(block) ==
  DecodeOrder(block.buffer, Seen(block), Slice(Seen(block), 0, 2) = II)

\* The forEach of encodeTIFFBlock: the 12-byte table entries and the value
\* area (word padding included), from entry i on, the next value at valueOffset.
RECURSIVE EncodeEntries(_, _, _, _)
EncodeEntries(ifdEntries, i, valueOffset, isLE) ==
  IF i > Len(ifdEntries) THEN [table |-> <<>>, values |-> <<>>]
  ELSE
    LET entry == ifdEntries[i]
        pad   == valueOffset % 2
        at    == valueOffset + pad
        rest  == EncodeEntries(ifdEntries, i + 1, at + Len(entry.value), isLE)
    IN  [table  |-> U16Bytes(entry.tag, isLE) \o U16Bytes(entry.type, isLE)
                      \o U32Bytes(Len(entry.value), isLE) \o U32Bytes(at, isLE)
                      \o rest.table,
         values |-> Zeros(pad) \o entry.value \o rest.values]

\* A block that ends where its last value ends.
EncodeTailDropped(ifdEntries, tailPadding, isLittleEndian) ==
  LET laid == EncodeEntries(ifdEntries, 1, 8 + 2 + Len(ifdEntries) * 12 + 4,
                            isLittleEndian)
  IN  Ok((IF isLittleEndian THEN II ELSE MM)
           \o U16Bytes(42, isLittleEndian) \o U32Bytes(8, isLittleEndian)
           \o U16Bytes(Len(ifdEntries), isLittleEndian) \o laid.table
           \o U32Bytes(0, isLittleEndian) \o laid.values)

encodeTIFFBlock(ifdEntries, tailPadding, isLittleEndian) ==
  LET tiffHeader == (IF isLittleEndian THEN II ELSE MM)
                      \o U16Bytes(42, isLittleEndian) \o U32Bytes(8, isLittleEndian)
      ifdSize == 2 + Len(ifdEntries) * 12 + 4
      laid == EncodeEntries(ifdEntries, 1, 8 + ifdSize, isLittleEndian)
      ifd == U16Bytes(Len(ifdEntries), isLittleEndian) \o laid.table
               \o U32Bytes(0, isLittleEndian)
  IN  \* new Uint8Array(tailPadding) throws on a negative length
      IF tailPadding < 0 THEN Throw("RangeError")
      ELSE Ok(tiffHeader \o ifd \o laid.values \o Zeros(tailPadding))

----------------------------------------------------------------------------
(* The WEBP codec.                                                         *)

RIFF == <<82, 73, 70, 70>>
WEBP == <<87, 69, 66, 80>>
EXIF == <<69, 88, 73, 70>>
ExifMarker == <<69, 120, 105, 102, 0, 0>>
Colon == 58

\* One decoded ascii "key:value" with its colon at index, assigned into txt.
AssignAscii(txt, ascii, index) ==
  IF ascii = Undefined \/ index = -1 THEN txt
  ELSE RecSet(txt, Slice(ascii, 0, index), SliceFrom(ascii, index + 1))

\* The key/value pairs of the decoded entries, assigned into txt_chunks in
\* entry order; an entry without ascii or without a colon is skipped.
RECURSIVE CollectAscii(_, _, _)
CollectAscii(entries, i, txt) ==
  IF i > Len(entries) THEN txt
  ELSE CollectAscii(entries, i + 1,
         AssignAscii(txt, entries[i].ascii, IndexOf(entries[i].ascii, Colon)))

\* The length of the "Exif\0\0" marker when the chunk body at offset has it.
ExifHeaderLength(webp, offset) ==
  IF Slice(webp, offset, offset + 6) = ExifMarker THEN 6 ELSE 0

\* The EXIF branch of getWebpMetadata, the chunk body at offset.
RECURSIVE WebpGetLoop(_, _, _)
WebpGetExif(webp, next, txt_chunks, tiff) ==
  IF ~tiff.ok THEN tiff
  ELSE WebpGetLoop(webp, next, CollectAscii(tiff.val.entries, 1, txt_chunks))

\* One chunk of getWebpMetadata, its length field already read.
WebpGetChunk(webp, offset, txt_chunks, chunk_length) ==
  IF Slice(webp, offset, offset + 4) = EXIF
    THEN WebpGetExif(webp, offset + 8 + chunk_length + (chunk_length % 2),
           txt_chunks,
           decodeTIFFBlock(Whole(Slice(webp, offset + 8 + ExifHeaderLength(webp, offset + 8),
                                       offset + 8 + chunk_length))))
    ELSE WebpGetLoop(webp, offset + 8 + chunk_length + (chunk_length % 2),
                     txt_chunks)

\* The chunk loop of getWebpMetadata.
WebpGetLoop(webp, offset, txt_chunks) ==
  IF offset >= Len(webp) THEN Ok(txt_chunks)
  ELSE IF ~CanRead(webp, offset + 4, 4) THEN Throw("RangeError")
  ELSE WebpGetChunk(webp, offset, txt_chunks, GetU32(webp, offset + 4, TRUE))

getWebpMetadata(buffer) ==
  \* dataView.getUint32(0) and getUint32(8) throw on a buffer that is too short
  IF ~CanRead(buffer, 0, 4) THEN Throw("RangeError")
  ELSE IF Slice(buffer, 0, 4) # RIFF THEN Ok(<<>>)
  ELSE IF ~CanRead(buffer, 8, 4) THEN Throw("RangeError")
  ELSE IF Slice(buffer, 8, 12) # WEBP THEN Ok(<<>>)
  ELSE WebpGetLoop(buffer, 12, <<>>)

\* `${key}:${modifyRecords[key] ?? value}\0`, encoded: modifyRecords[key] is
\* looked up along the prototype chain.
RewrittenValue(modifyRecords, key, value) ==
  TextEncode(key \o <<Colon>>
               \o TemplateText(IF RecHas(modifyRecords, key)
                                 THEN RecGet(modifyRecords, key) ELSE value)
               \o <<0>>)

\* One turn of entries.forEach in setWebpMetadata on the entry e whose ascii
\* has its colon at index: acc is encodeEntries so far.
RECURSIVE RewriteEntries(_, _, _, _)
RewriteEntry(entries, i, modifyRecords, acc, e, index) ==
  IF e.ascii = Undefined \/ index = -1
    THEN RewriteEntries(entries, i + 1, modifyRecords,
           Append(acc, [tag |-> e.tag, type |-> e.type, value |-> e.value]))
    ELSE RewriteEntries(entries, i + 1,
           \* delete modifyRecords[key]
           RecDelete(modifyRecords, Slice(e.ascii, 0, index)),
           Append(acc, [tag |-> e.tag, type |-> e.type,
                        value |-> RewrittenValue(modifyRecords,
                                    Slice(e.ascii, 0, index),
                                    SliceFrom(e.ascii, index + 1))]))

\* entries.forEach of setWebpMetadata: an ASCII entry "key:value" is rewritten
\* with the incoming value when the record has the key, and the key is
\* deleted from the record; every other entry is passed on as it is.
RewriteEntries(entries, i, modifyRecords, acc) ==
  IF i > Len(entries) THEN [entries |-> acc, modifyRecords |-> modifyRecords]
  ELSE RewriteEntry(entries, i, modifyRecords, acc, entries[i],
                    IndexOf(entries[i].ascii, Colon))

\* One new ASCII entry per key left in the record, tags counting down from Make.
NewEntries(modifyRecords) ==
  [i \in 1..Len(modifyRecords) |->
     [tag |-> EXIF_TAGS_Make - (i - 1), type |-> TypeAscii,
      value |-> TextEncode(modifyRecords[i][1] \o <<Colon>>
                             \o modifyRecords[i][2] \o <<0>>)]]

\* A chunk body written without a pad byte, whatever its length.
Unpadded(content) == content

\* A chunk body of the given length with the pad byte an odd length calls for.
Padded(content) == content \o (IF Len(content) % 2 = 1 THEN <<0>> ELSE <<>>)

\* An EXIF chunk whose length field counts the pad byte as well.
ExifChunkPadCounted(exifHeaderLength, tiffBlock) ==
  EXIF \o U32Bytes(Len(Padded((IF exifHeaderLength # 0 THEN ExifMarker ELSE <<>>) \o tiffBlock)), TRUE)
       \o Padded((IF exifHeaderLength # 0 THEN ExifMarker ELSE <<>>) \o tiffBlock)

\* The EXIF chunk that replaces an existing one.
RewrittenExifChunk(exifHeaderLength, tiffBlock) ==
  EXIF \o U32Bytes(exifHeaderLength + Len(tiffBlock), TRUE)
       \o Padded((IF exifHeaderLength # 0 THEN ExifMarker ELSE <<>>) \o tiffBlock)

\* The EXIF chunk added to a file that has none.
ExifChunkOf(exifContent) ==
  EXIF \o U32Bytes(Len(exifContent), TRUE) \o Padded(exifContent)

SynthesizedExifChunk(modifyRecords) ==
  ExifChunkOf(ExifMarker \o encodeTIFFBlock(NewEntries(modifyRecords), 0, TRUE).val)

\* The position the chunk loop of setWebpMetadata moves to after an EXIF
\* chunk that starts at offset: the branch adds 8 when it enters the chunk
\* and 8 + paddedLength when it leaves it.
AfterExifChunk(offset, paddedLength) == offset + 8 + 8 + paddedLength

\* The EXIF branch once the block is re-encoded as tiffBlock.
RECURSIVE WebpSetLoop(_, _, _, _, _)
WebpSetEncoded(webp, offset, newChunks, paddedLength, rw, tiffBlock) ==
  IF ~tiffBlock.ok
    THEN [ok |-> FALSE, err |-> tiffBlock.err, modifyRecords |-> rw.modifyRecords]
  ELSE WebpSetLoop(webp, AfterExifChunk(offset, paddedLength),
         newChunks \o RewrittenExifChunk(ExifHeaderLength(webp, offset + 8),
                                         tiffBlock.val),
         rw.modifyRecords, TRUE)

\* The EXIF branch once the entries are rewritten as rw.
WebpSetRewritten(webp, offset, newChunks, paddedLength, tiff, rw) ==
  WebpSetEncoded(webp, offset, newChunks, paddedLength, rw,
    encodeTIFFBlock(rw.entries \o NewEntries(rw.modifyRecords),
                    tiff.tailPadding, tiff.isLittleEndian))

\* The EXIF branch once the block is decoded as tiff.
WebpSetExif(webp, offset, newChunks, modifyRecords, paddedLength, tiff) ==
  IF ~tiff.ok
    THEN [ok |-> FALSE, err |-> tiff.err, modifyRecords |-> modifyRecords]
  ELSE WebpSetRewritten(webp, offset, newChunks, paddedLength, tiff.val,
         RewriteEntries(tiff.val.entries, 1, modifyRecords, <<>>))

\* One chunk of setWebpMetadata, its length field already read.
WebpSetChunk(webp, offset, newChunks, modifyRecords, exifChunkFound, chunk_length) ==
  IF Slice(webp, offset, offset + 4) = EXIF
    THEN WebpSetExif(webp, offset, newChunks, modifyRecords,
           chunk_length + (chunk_length % 2),
           decodeTIFFBlock(Whole(Slice(webp, offset + 8 + ExifHeaderLength(webp, offset + 8),
                                       offset + 8 + chunk_length))))
    ELSE WebpSetLoop(webp, offset + 8 + chunk_length + (chunk_length % 2),
           newChunks \o Slice(webp, offset,
                              offset + 8 + chunk_length + (chunk_length % 2)),
           modifyRecords, exifChunkFound)

\* The chunk loop of setWebpMetadata.
WebpSetLoop(webp, offset, newChunks, modifyRecords, exifChunkFound) ==
  IF offset >= Len(webp)
    THEN [ok |-> TRUE, newChunks |-> newChunks,
          modifyRecords |-> modifyRecords, exifChunkFound |-> exifChunkFound]
  ELSE IF ~CanRead(webp, offset + 4, 4)
    THEN [ok |-> FALSE, err |-> "RangeError", modifyRecords |-> modifyRecords]
  ELSE WebpSetChunk(webp, offset, newChunks, modifyRecords, exifChunkFound,
                    GetU32(webp, offset + 4, TRUE))

\* Update RIFF size: bytes 4..7 become the length of the file minus 8.
WithRiffSize(newWebpData) ==
  Slice(newWebpData, 0, 4) \o U32Bytes(Len(newWebpData) - 8, TRUE)
    \o SliceFrom(newWebpData, 8)

\* What setWebpMetadata does once the chunk loop has ended as r.
WebpSetFinish(r) ==
  IF ~r.ok THEN r
  ELSE [ok |-> TRUE,
        val |-> WithRiffSize(
                  IF Len(r.modifyRecords) > 0 /\ ~r.exifChunkFound
                    THEN r.newChunks \o SynthesizedExifChunk(r.modifyRecords)
                    ELSE r.newChunks),
        modifyRecords |-> r.modifyRecords]

\* setWebpMetadata(buffer, modifyRecords): val is the returned file,
\* modifyRecords the caller's record object as the call leaves it.
setWebpMetadata(buffer, modifyRecords) ==
  IF Slice(buffer, 0, 4) # RIFF \/ Slice(buffer, 8, 12) # WEBP
    THEN [ok |-> FALSE, err |-> "Not a valid WEBP file",
          modifyRecords |-> modifyRecords]
  ELSE WebpSetFinish(WebpSetLoop(buffer, 12, Slice(buffer, 0, 12),
                                 modifyRecords, FALSE))

----------------------------------------------------------------------------
(* The FLAC codec.                                                         *)

fLaC == <<102, 76, 97, 67>>

\* The metadata block type of a Vorbis comment.
VorbisCommentType == 4

EqualsSign == 61

\* vendor string used when the file has no Vorbis comment block
DefaultVendor ==
  <<72, 97, 110, 122, 111, 32, 83, 116, 117, 100, 105, 111, 32, 69, 109, 98,
    101, 100, 100, 101, 100, 32, 87, 111, 114, 107, 102, 108, 111, 119, 32,
    69, 100, 105, 116, 111, 114>>

\* What getFlacMetadata returns when no Vorbis comment block was met.
Null == <<<<<<-2>>, <<-2>>>>>>

\* The 24-bit big-endian block length of the header at offset.
BlockSizeAt(b, offset) ==
  65536 * At(b, offset + 1) + 256 * At(b, offset + 2) + At(b, offset + 3)

\* getString: one UTF-16 code unit per byte.
getString(view, offset, length) ==
  IF length > 0 /\ ~CanRead(view, offset, length) THEN Throw("RangeError")
  ELSE Ok(Slice(view, offset, offset + length))

\* comments[key] = comment.substring(ind + 1), key = comment.substring(0, ind):
\* substring(0, -1) is the empty string.
AssignComment(comments, comment, ind) ==
  RecSet(comments, IF ind = -1 THEN <<>> ELSE Slice(comment, 0, ind),
         SliceFrom(comment, ind + 1))

\* One turn of the comment loop, the comment string read as comment.
RECURSIVE ParseComments(_, _, _, _, _)
ParseComment(view, next, i, userCommentListLength, comments, comment) ==
  IF ~comment.ok THEN comment
  ELSE ParseComments(view, next, i + 1, userCommentListLength,
         AssignComment(comments, comment.val, IndexOf(comment.val, EqualsSign)))

\* One turn of the comment loop, the length field read as commentLength.
ParseCommentAt(view, offset, i, userCommentListLength, comments, commentLength) ==
  ParseComment(view, offset + 4 + commentLength, i, userCommentListLength,
               comments, getString(view, offset + 4, commentLength))

\* The comment loop of parseVorbisComment.
ParseComments(view, offset, i, userCommentListLength, comments) ==
  IF i >= userCommentListLength THEN Ok(comments)
  ELSE IF ~CanRead(view, offset, 4) THEN Throw("RangeError")
  ELSE ParseCommentAt(view, offset, i, userCommentListLength, comments,
                      GetU32(view, offset, TRUE))

\* parseVorbisComment past the vendor string, which ends at offset.
ParseCommentList(view, offset) ==
  IF ~CanRead(view, offset, 4) THEN Throw("RangeError")
  ELSE ParseComments(view, offset + 4, 0, GetU32(view, offset, TRUE), <<>>)

parseVorbisComment(view) ==
  IF ~CanRead(view, 0, 4) THEN Throw("RangeError")
  ELSE ParseCommentList(view, 4 + GetU32(view, 0, TRUE))

\* The Vorbis comment branch of the block loop, the block parsed as parsed.
RECURSIVE FlacGetLoop(_, _, _)
FlacGetVorbis(buffer, next, isLastBlock, parsed) ==
  IF ~parsed.ok THEN parsed
  ELSE IF isLastBlock THEN Ok(parsed.val)
  ELSE FlacGetLoop(buffer, next, parsed.val)

\* One block of getFlacMetadata, its header at offset, its size read as blockSize.
FlacGetBlock(buffer, offset, vorbisComment, blockSize) ==
  IF At(buffer, offset) % 128 = VorbisCommentType
    THEN
      \* new DataView(buffer, offset, blockSize)
      IF ~CanRead(buffer, offset + 4, blockSize) THEN Throw("RangeError")
      ELSE FlacGetVorbis(buffer, offset + 4 + blockSize, At(buffer, offset) >= 128,
             parseVorbisComment(Slice(buffer, offset + 4, offset + 4 + blockSize)))
  ELSE IF At(buffer, offset) >= 128 THEN Ok(vorbisComment)
  ELSE FlacGetLoop(buffer, offset + 4 + blockSize, vorbisComment)

\* The block loop of getFlacMetadata.
FlacGetLoop(buffer, offset, vorbisComment) ==
  IF offset >= Len(buffer) THEN Ok(vorbisComment)
  ELSE IF ~CanRead(buffer, offset, 4) THEN Throw("RangeError")
  ELSE FlacGetBlock(buffer, offset, vorbisComment, BlockSizeAt(buffer, offset))

getFlacMetadata(input) ==
  \* new Uint8Array(buffer, 0, 4) throws on fewer than 4 bytes
  IF ~CanRead(input, 0, 4) THEN Throw("RangeError")
  ELSE IF Slice(input, 0, 4) # fLaC THEN Throw("Not a valid FLAC file")
  ELSE FlacGetLoop(input, 4, Null)

\* The comments of createVorbisComment: each a 4-byte little-endian length
\* and the UTF-8 bytes of "key=value".
RECURSIVE CommentBytes(_)
CommentBytes(metadata) ==
  IF metadata = <<>> THEN <<>>
  ELSE LET commentBytes ==
             TextEncode(Head(metadata)[1] \o <<EqualsSign>> \o Head(metadata)[2])
       IN  U32Bytes(Len(commentBytes), TRUE) \o commentBytes
             \o CommentBytes(Tail(metadata))

createVorbisComment(vendorString, metadata) ==
  LET vendorBytes == TextEncode(vendorString) IN
  U32Bytes(Len(vendorBytes), TRUE) \o vendorBytes
    \o U32Bytes(Len(metadata), TRUE) \o CommentBytes(metadata)

\* A Vorbis comment header without the last-block flag.
UnflaggedVorbisHeader(blockSize) ==
  <<4, (blockSize \div 65536) % 256, (blockSize \div 256) % 256, blockSize % 256>>

\* The header setFlacMetadata writes before the new Vorbis comment block:
\* type 4 with the last-block flag, and the 24-bit block size.
NewVorbisHeader(blockSize) ==
  <<132, (blockSize \div 65536) % 256, (blockSize \div 256) % 256, blockSize % 256>>

\* What the first pass of setFlacMetadata leaves behind.
FlacPass(outputParts, offset, vorbisCommentOffset, vorbisCommentSize, lastMetadataBlockFound) ==
  [ok |-> TRUE, outputParts |-> outputParts, offset |-> offset,
   vorbisCommentOffset |-> vorbisCommentOffset,
   vorbisCommentSize |-> vorbisCommentSize,
   lastMetadataBlockFound |-> lastMetadataBlockFound]

\* One block of the first pass: outputParts, vorbisCommentOffset and
\* vorbisCommentSize are what the block leaves in these variables.
RECURSIVE FlacSetLoop(_, _, _, _, _)
FlacSetBlock(inputData, next, isLastBlock, outputParts, vorbisCommentOffset, vorbisCommentSize) ==
  IF isLastBlock
    THEN FlacPass(outputParts, next, vorbisCommentOffset, vorbisCommentSize, TRUE)
    ELSE FlacSetLoop(inputData, next, outputParts, vorbisCommentOffset,
                     vorbisCommentSize)

\* One block of the first pass, its size read as blockSize.
FlacSetBlockAt(inputData, offset, outputParts, vorbisCommentOffset, vorbisCommentSize, blockSize) ==
  IF At(inputData, offset) % 128 = VorbisCommentType
    THEN FlacSetBlock(inputData, offset + 4 + blockSize, At(inputData, offset) >= 128,
                      outputParts, offset, blockSize)
    ELSE FlacSetBlock(inputData, offset + 4 + blockSize, At(inputData, offset) >= 128,
                      outputParts \o Slice(inputData, offset, offset + 4 + blockSize),
                      vorbisCommentOffset, vorbisCommentSize)

\* First pass of setFlacMetadata: copies every block that is not a Vorbis
\* comment and remembers where the Vorbis comment block is.
FlacSetLoop(inputData, offset, outputParts, vorbisCommentOffset, vorbisCommentSize) ==
  IF offset >= Len(inputData)
    THEN FlacPass(outputParts, offset, vorbisCommentOffset, vorbisCommentSize, FALSE)
  ELSE IF ~CanRead(inputData, offset, 4) THEN Throw("RangeError")
  ELSE FlacSetBlockAt(inputData, offset, outputParts, vorbisCommentOffset,
                      vorbisCommentSize, BlockSizeAt(inputData, offset))

\* vendorString and existingMetadata when the try block did not assign them.
NoVorbis == [vendorString |-> DefaultVendor, existingMetadata |-> <<>>]

\* The try block after vendorString was assigned: a throw of
\* parseVorbisComment leaves existingMetadata empty.
VorbisParsed(vendorString, parsed) ==
  [vendorString |-> vendorString,
   existingMetadata |-> IF parsed.ok THEN parsed.val ELSE <<>>]

\* The try block once getString has run as vendor.
VorbisVendor(view, vendor) ==
  IF ~vendor.ok THEN NoVorbis
  ELSE VorbisParsed(vendor.val, parseVorbisComment(view))

\* The try block on the DataView view of the Vorbis comment block.
VorbisView(view) ==
  IF ~CanRead(view, 0, 4) THEN NoVorbis
  ELSE VorbisVendor(view, getString(view, 4, GetU32(view, 0, TRUE)))

\* The try block of setFlacMetadata that reads the existing Vorbis comment:
\* on an error the values assigned so far are kept.
ExistingVorbis(inputData, vorbisCommentOffset, vorbisCommentSize) ==
  IF vorbisCommentOffset = -1 THEN NoVorbis
  ELSE IF ~CanRead(inputData, vorbisCommentOffset + 4, vorbisCommentSize)
    THEN NoVorbis
  ELSE VorbisView(Slice(inputData, vorbisCommentOffset + 4,
                        vorbisCommentOffset + 4 + vorbisCommentSize))

\* Existing entries first, then the incoming ones over them.
MergeMetadata(existingMetadata, metadata) ==
  RecAssignAll(RecAssignAll(<<>>, existingMetadata), metadata)

\* The output without the bytes that follow the metadata blocks.
FlacOutputCut(inputData, pass, newVorbisComment) ==
  pass.outputParts \o NewVorbisHeader(Len(newVorbisComment)) \o newVorbisComment

\* The returned file: the copied blocks, the new Vorbis comment block with
\* its header, and the audio data after the metadata blocks.
FlacOutput(inputData, pass, newVorbisComment) ==
  pass.outputParts \o NewVorbisHeader(Len(newVorbisComment)) \o newVorbisComment
    \o (IF pass.lastMetadataBlockFound /\ pass.offset < Len(inputData)
          THEN SliceFrom(inputData, pass.offset) ELSE <<>>)

FlacSetMerged(inputData, metadata, pass, existing) ==
  [ok |-> TRUE,
   val |-> FlacOutput(inputData, pass,
             createVorbisComment(existing.vendorString,
               MergeMetadata(existing.existingMetadata, metadata))),
   modifyRecords |-> metadata]

\* setFlacMetadata once the first pass has ended as pass.
FlacSetFinish(inputData, metadata, pass) ==
  IF ~pass.ok
    THEN [ok |-> FALSE, err |-> pass.err, modifyRecords |-> metadata]
  ELSE FlacSetMerged(inputData, metadata, pass,
         ExistingVorbis(inputData, pass.vorbisCommentOffset,
                        pass.vorbisCommentSize))

setFlacMetadata(buffer, metadata) ==
  IF Slice(buffer, 0, 4) # fLaC
    THEN [ok |-> FALSE, err |-> "Not a valid FLAC file", modifyRecords |-> metadata]
  ELSE FlacSetFinish(buffer, metadata,
                     FlacSetLoop(buffer, 4, Slice(buffer, 0, 4), -1, 0))

----------------------------------------------------------------------------
(* The MP4 codec: reading.                                                 *)

ftyp == <<102, 116, 121, 112>>
moov == <<109, 111, 111, 118>>
udta == <<117, 100, 116, 97>>
meta == <<109, 101, 116, 97>>
uuid == <<117, 117, 105, 100>>
wflo == <<119, 102, 108, 111>>
keys == <<107, 101, 121, 115>>
ilst == <<105, 108, 115, 116>>
data == <<100, 97, 116, 97>>
hdlr == <<104, 100, 108, 114>>
mdta == <<109, 100, 116, 97>>

\* The reserved key "workflow".
Workflow == <<119, 111, 114, 107, 102, 108, 111, 119>>

\* 'comfyuiworkflow\0'
WORKFLOW_UUID ==
  <<99, 111, 109, 102, 121, 117, 105, 119, 111, 114, 107, 102, 108, 111, 119, 0>>

\* First code unit of a '©'-prefixed atom type.
CopyrightSign == 169

\* The outcome of a loop that never ends.
Diverges == [ok |-> FALSE, err |-> "does not terminate"]

BoxType(b, offset) == Slice(b, offset + 4, offset + 8)

\* boxSize after "if (boxSize === 0) boxSize = end - offset".
BoxSize(size, offset, end) == IF size = 0 THEN end - offset ELSE size

\* new TextDecoder().decode(bytes).trim() on the bytes from..to of b.
Text(b, from, to) == Trim(TextDecode(Slice(b, from, to)))

hasFtypBox(b) == Len(b) >= 8 /\ Slice(b, 4, 8) = ftyp

\* keysMap[index] = name
PutKey(keysMap, index, name) ==
  [x \in (DOMAIN keysMap) \cup {index} |-> IF x = index THEN name ELSE keysMap[x]]

\* keysMap after the key entry i (0-based) at keyOffset, of size keySize.
KeyNamed(b, boxEnd, keyOffset, i, keysMap, keySize) ==
  IF keySize > 8 /\ keyOffset + keySize <= boxEnd
    THEN PutKey(keysMap, i + 1, Text(b, keyOffset + 8, keyOffset + keySize))
    ELSE keysMap

\* One turn of the key loop, the size field read as keySize.
RECURSIVE ParseKeyEntries(_, _, _, _, _, _)
ParseKeyEntry(b, boxEnd, keyOffset, i, entryCount, keysMap, keySize) ==
  ParseKeyEntries(b, boxEnd, keyOffset + keySize, i + 1, entryCount,
                  KeyNamed(b, boxEnd, keyOffset, i, keysMap, keySize))

\* The for loop of parseMetaBox over the entries of a keys box that ends at
\* boxEnd; entry i (0-based) names key index i + 1.
ParseKeyEntries(b, boxEnd, keyOffset, i, entryCount, keysMap) ==
  IF i >= entryCount \/ keyOffset + 8 > boxEnd THEN keysMap
  ELSE ParseKeyEntry(b, boxEnd, keyOffset, i, entryCount, keysMap,
                     GetU32(b, keyOffset, FALSE))

\* One child of the meta box in step 1, its size settled as boxSize.
RECURSIVE MetaScan(_, _, _, _, _)
MetaScanBox(b, offset, end, keysMap, ilstOffset, boxSize) ==
  IF offset + boxSize > end
    THEN [keysMap |-> keysMap, ilstOffset |-> ilstOffset]
  ELSE IF BoxType(b, offset) = keys
    THEN MetaScan(b, offset + boxSize, end,
           IF offset + 16 <= end
             THEN ParseKeyEntries(b, offset + boxSize, offset + 16, 0,
                                  GetU32(b, offset + 12, FALSE), keysMap)
             ELSE keysMap,
           ilstOffset)
  ELSE MetaScan(b, offset + boxSize, end, keysMap,
                IF BoxType(b, offset) = ilst THEN offset ELSE ilstOffset)

\* Step 1 of parseMetaBox: scan the children of the meta box for keys and ilst.
MetaScan(b, offset, end, keysMap, ilstOffset) ==
  IF offset >= end \/ offset + 8 > end
    THEN [keysMap |-> keysMap, ilstOffset |-> ilstOffset]
  ELSE MetaScanBox(b, offset, end, keysMap, ilstOffset,
                   BoxSize(GetU32(b, offset, FALSE), offset, end))

\* if (keyName) metadata[keyName] = textValue, keyName = keysMap[itemCount]
PutItem(metadata, keysMap, itemCount, textValue) ==
  IF itemCount \in DOMAIN keysMap /\ keysMap[itemCount] # <<>>
    THEN RecSet(metadata, keysMap[itemCount], textValue)
    ELSE metadata

\* new Uint8Array(dataView.buffer, dataView.byteOffset + off, n) can be made:
\* n is not negative and the n bytes lie in the buffer, inside the view or not.
CanReadBuffer(dataView, off, n) ==
  n >= 0 /\ dataView.byteOffset + off + n <= Len(dataView.buffer)

\* The bytes of that array.
BufferBytes(dataView, off, n) ==
  SubSeq(dataView.buffer, dataView.byteOffset + off + 1,
         dataView.byteOffset + off + n)

\* An item whose data box holds text: actualDataSize bytes at actualDataOffset;
\* next is where the item ends.
RECURSIVE MetaItems(_, _, _, _, _, _)
MetaItemText(dataView, next, ilstEnd, itemCount, keysMap, metadata, actualDataOffset, actualDataSize) ==
  IF actualDataOffset + actualDataSize > next
    THEN MetaItems(dataView, next, ilstEnd, itemCount, keysMap, metadata)
  ELSE IF ~CanReadBuffer(dataView, actualDataOffset, actualDataSize)
    THEN Throw("RangeError")
  ELSE MetaItems(dataView, next, ilstEnd, itemCount, keysMap,
         PutItem(metadata, keysMap, itemCount,
                 Trim(TextDecode(BufferBytes(dataView, actualDataOffset,
                                             actualDataSize)))))

\* An item of more than 8 bytes: the box at dataOffset is looked at.  Its
\* size and data type are read with getUint32, inside the view; its type is
\* read from the buffer.
MetaItemData(dataView, dataOffset, next, ilstEnd, itemCount, keysMap, metadata) ==
  IF ~CanRead(Seen(dataView), dataOffset, 4) THEN Throw("RangeError")
  ELSE IF ~CanReadBuffer(dataView, dataOffset + 4, 4) THEN Throw("RangeError")
  ELSE IF BufferBytes(dataView, dataOffset + 4, 4) # data \/ dataOffset + 16 > next
    THEN MetaItems(dataView, next, ilstEnd, itemCount, keysMap, metadata)
  ELSE IF ~CanRead(Seen(dataView), dataOffset + 8, 4) THEN Throw("RangeError")
  ELSE IF GetU32(Seen(dataView), dataOffset + 8, FALSE) # 1
    THEN MetaItems(dataView, next, ilstEnd, itemCount, keysMap, metadata)
  ELSE MetaItemText(dataView, next, ilstEnd, itemCount, keysMap, metadata,
                    dataOffset + 16, GetU32(Seen(dataView), dataOffset, FALSE) - 16)

\* One item, its size read as itemSize, itemCount already counting it: an
\* item of size 0 is never left.
MetaItem(dataView, offset, ilstEnd, itemCount, keysMap, metadata, itemSize) ==
  IF itemSize = 0 THEN Diverges
  ELSE IF itemSize <= 8
    THEN MetaItems(dataView, offset + itemSize, ilstEnd, itemCount, keysMap, metadata)
  ELSE MetaItemData(dataView, offset + 8, offset + itemSize, ilstEnd, itemCount,
                    keysMap, metadata)

\* Step 2 of parseMetaBox: the items of the ilst box, counted from 1.
MetaItems(dataView, offset, ilstEnd, itemCount, keysMap, metadata) ==
  IF offset >= ilstEnd \/ offset + 8 > ilstEnd THEN Ok(metadata)
  ELSE MetaItem(dataView, offset, ilstEnd, itemCount + 1, keysMap, metadata,
                GetU32(Seen(dataView), offset, FALSE))

\* parseMetaBox once step 1 has ended as scan.
MetaValues(dataView, scan, metadata) ==
  IF scan.ilstOffset # 0 /\ DOMAIN scan.keysMap # {}
    THEN MetaItems(dataView, scan.ilstOffset + 8,
                   scan.ilstOffset + GetU32(Seen(dataView), scan.ilstOffset, FALSE),
                   0, scan.keysMap, metadata)
    ELSE Ok(metadata)

parseMetaBox(dataView, start, end, metadata) ==
  MetaValues(dataView, MetaScan(Seen(dataView), start, end, <<>>, 0), metadata)

\* parseUuidBox: start is the first byte after the box header, end the end of
\* the box.  The caller has checked that 16 bytes can be read at start.  The
\* workflow is new Uint8Array(dataView.buffer, start + 16, end - (start + 16)):
\* counted from the start of the buffer, not of the view; a range that leaves
\* the buffer throws, which is caught.
parseUuidBox(dataView, start, end, metadata) ==
  IF Slice(Seen(dataView), start, start + 16) = WORKFLOW_UUID
       /\ end - (start + 16) > 0
       /\ end <= Len(dataView.buffer)
    THEN RecSet(metadata, Workflow,
                Trim(TextDecode(SubSeq(dataView.buffer, start + 16 + 1, end))))
    ELSE metadata

\* The first if of the loop of parseUserDataBox: a wflo box or a meta box.
UdtaWorkflow(dataView, offset, end, metadata, boxSize) ==
  IF BoxType(Seen(dataView), offset) = wflo /\ offset + 12 < end
    \* a negative length makes new Uint8Array throw: caught and logged
    THEN Ok(IF boxSize - 12 >= 0
              THEN RecSet(metadata, Workflow, Text(Seen(dataView), offset + 12, offset + boxSize))
              ELSE metadata)
  ELSE IF BoxType(Seen(dataView), offset) = meta /\ offset + 12 < end
    THEN parseMetaBox(dataView, offset + 12, offset + boxSize, metadata)
  ELSE Ok(metadata)

\* The second if: an atom whose type starts with the copyright sign.
UdtaAtom(dataView, offset, end, metadata, boxSize) ==
  IF At(Seen(dataView), offset + 4) = CopyrightSign /\ offset + 12 < end
       /\ boxSize - 12 > 0
    THEN RecSet(metadata, Slice(Seen(dataView), offset + 5, offset + 8),
                Text(Seen(dataView), offset + 12, offset + boxSize))
    ELSE metadata

\* The rest of the turn once the first if has ended as first.
RECURSIVE parseUserDataBox(_, _, _, _)
UdtaNext(dataView, offset, end, boxSize, first) ==
  IF ~first.ok THEN first
  ELSE parseUserDataBox(dataView, offset + boxSize, end,
                        UdtaAtom(dataView, offset, end, first.val, boxSize))

\* One child of the udta box, its size settled as boxSize.
UdtaBox(dataView, offset, end, metadata, boxSize) ==
  IF offset + boxSize > end THEN Ok(metadata)
  ELSE UdtaNext(dataView, offset, end, boxSize,
                UdtaWorkflow(dataView, offset, end, metadata, boxSize))

\* The loop of parseUserDataBox over the children of a udta box.
parseUserDataBox(dataView, offset, end, metadata) ==
  IF offset >= end \/ offset + 8 > end THEN Ok(metadata)
  ELSE UdtaBox(dataView, offset, end, metadata,
               BoxSize(GetU32(Seen(dataView), offset, FALSE), offset, end))

\* "Process different box types" in parseBoxes.
RECURSIVE parseBoxes(_, _, _, _)
BoxContent(dataView, offset, end, metadata, headerSize, boxSize) ==
  IF BoxType(Seen(dataView), offset) = moov
    THEN parseBoxes(dataView, offset + headerSize, offset + boxSize, metadata)
  ELSE IF BoxType(Seen(dataView), offset) = udta
    THEN parseUserDataBox(dataView, offset + headerSize, offset + boxSize, metadata)
  ELSE IF BoxType(Seen(dataView), offset) = meta /\ offset + headerSize + 4 <= end
    THEN parseMetaBox(dataView, offset + headerSize + 4, offset + boxSize, metadata)
  ELSE IF BoxType(Seen(dataView), offset) = uuid /\ offset + headerSize + 16 <= end
    THEN Ok(parseUuidBox(dataView, offset + headerSize, offset + boxSize, metadata))
  ELSE Ok(metadata)

\* "Move to the next box", the box processed as inner.
BoxNext(dataView, next, end, inner) ==
  IF ~inner.ok THEN inner ELSE parseBoxes(dataView, next, end, inner.val)

\* One box of parseBoxes, header size and box size settled.
BoxAt(dataView, offset, end, metadata, headerSize, boxSize) ==
  IF offset + boxSize > end THEN Ok(metadata)
  ELSE BoxNext(dataView, offset + boxSize, end,
               BoxContent(dataView, offset, end, metadata, headerSize, boxSize))

\* The size field read as size: a size of 1 announces a 64-bit size, of
\* which the low 32 bits are used.
BoxHeader(dataView, offset, end, metadata, size) ==
  BoxAt(dataView, offset, end, metadata,
        IF size = 1 /\ offset + 16 <= end THEN 16 ELSE 8,
        BoxSize(IF size = 1 /\ offset + 16 <= end
                  THEN GetU32(Seen(dataView), offset + 12, FALSE) ELSE size,
                offset, end))

\* parseBoxes: the boxes from offset to end, moov entered recursively.
parseBoxes(dataView, offset, end, metadata) ==
  IF offset >= end \/ offset + 8 > end THEN Ok(metadata)
  ELSE BoxHeader(dataView, offset, end, metadata, GetU32(Seen(dataView), offset, FALSE))

\* The catch of getMp4Metadata: every error raised while parsing ends in {}.
Caught(parsed) ==
  IF parsed.ok \/ parsed = Diverges THEN parsed ELSE Ok(<<>>)

\* getMp4Metadata with the errors handed on to the caller instead of caught.
Mp4GetUncaught(input) ==
  IF ~hasFtypBox(Seen(input)) THEN Throw("Not a valid MP4 file")
  ELSE parseBoxes(input, 0, input.byteLength, <<>>)

\* getMp4Metadata(input), input a Uint8Array: the DataView has the buffer,
\* byteOffset and byteLength of input.
getMp4Metadata(input) ==
  IF ~hasFtypBox(Seen(input)) THEN Ok(<<>>)
  ELSE Caught(parseBoxes(input, 0, input.byteLength, <<>>))

----------------------------------------------------------------------------
(* The MP4 codec: writing.                                                 *)

NotFound == [found |-> FALSE]

\* One box of findBox, its size settled as boxSize.
RECURSIVE findBox(_, _, _, _)
FindAt(b, offset, end, targetType, boxSize) ==
  IF offset + boxSize > end THEN NotFound
  ELSE IF BoxType(b, offset) = targetType
    THEN [found |-> TRUE, offset |-> offset, size |-> boxSize]
  ELSE findBox(b, offset + boxSize, end, targetType)

\* The size field read as size.
FindSized(b, offset, end, targetType, size) ==
  FindAt(b, offset, end, targetType,
         BoxSize(IF size = 1 /\ offset + 16 <= end
                   THEN GetU32(b, offset + 12, FALSE) ELSE size,
                 offset, end))

\* findBox: the first box of type targetType among the boxes from offset to end.
findBox(b, offset, end, targetType) ==
  IF offset >= end \/ offset + 8 > end THEN NotFound
  ELSE FindSized(b, offset, end, targetType, GetU32(b, offset, FALSE))

\* One turn of the key loop, the size field read as keySize.
RECURSIVE MoovKeyEntries(_, _, _, _, _, _)
MoovKeyEntry(metaData, boxEnd, keyOffset, i, entryCount, keysMap, keySize) ==
  MoovKeyEntries(metaData, boxEnd, keyOffset + keySize, i + 1, entryCount,
                 KeyNamed(metaData, boxEnd, keyOffset, i, keysMap, keySize))

\* The key-entry loop of injectMetadataIntoMoov, over the bytes of the meta
\* box; boxEnd = offset + size of the keys box, as its size field states it.
MoovKeyEntries(metaData, boxEnd, keyOffset, i, entryCount, keysMap) ==
  IF i >= entryCount \/ keyOffset + 8 > boxEnd THEN Ok(keysMap)
  ELSE IF ~CanRead(metaData, keyOffset, 4) THEN Throw("RangeError")
  ELSE MoovKeyEntry(metaData, boxEnd, keyOffset, i, entryCount, keysMap,
                    GetU32(metaData, keyOffset, FALSE))

\* "offset += size" of the first loop, what the turn found before it as
\* found: a box of size 0 is never left.
RECURSIVE MoovKeysScan(_, _, _)
MoovKeysNext(metaData, offset, size, found) ==
  IF ~found.ok THEN found
  ELSE IF size = 0 THEN Diverges
  ELSE MoovKeysScan(metaData, offset + size, found.val)

\* One child of the existing meta box in the first loop.
MoovKeysBox(metaData, offset, keysMap, size) ==
  MoovKeysNext(metaData, offset, size,
    IF BoxType(metaData, offset) = keys /\ offset + 16 <= Len(metaData)
      THEN MoovKeyEntries(metaData, offset + size, offset + 16, 0,
                          GetU32(metaData, offset + 12, FALSE), keysMap)
      ELSE Ok(keysMap))

\* The first while loop over the children of the existing meta box.
MoovKeysScan(metaData, offset, keysMap) ==
  IF offset >= Len(metaData) \/ offset + 8 > Len(metaData) THEN Ok(keysMap)
  ELSE MoovKeysBox(metaData, offset, keysMap, GetU32(metaData, offset, FALSE))

\* An item whose data box holds text; textBytes = metaData.slice(...) does
\* not throw.
RECURSIVE MoovItems(_, _, _, _, _, _)
MoovItemText(metaData, next, ilstEnd, itemCount, keysMap, existingMetadata, actualDataOffset, actualDataSize) ==
  MoovItems(metaData, next, ilstEnd, itemCount, keysMap,
    IF actualDataOffset + actualDataSize <= next
      THEN PutItem(existingMetadata, keysMap, itemCount,
                   Text(metaData, actualDataOffset, actualDataOffset + actualDataSize))
      ELSE existingMetadata)

\* An item of more than 8 bytes: the box at dataOffset is looked at.
MoovItemData(metaData, dataOffset, next, ilstEnd, itemCount, keysMap, existingMetadata) ==
  IF ~CanRead(metaData, dataOffset, 8) THEN Throw("RangeError")
  ELSE IF BoxType(metaData, dataOffset) # data \/ dataOffset + 16 > next
    THEN MoovItems(metaData, next, ilstEnd, itemCount, keysMap, existingMetadata)
  ELSE IF ~CanRead(metaData, dataOffset + 8, 4) THEN Throw("RangeError")
  ELSE IF GetU32(metaData, dataOffset + 8, FALSE) # 1
    THEN MoovItems(metaData, next, ilstEnd, itemCount, keysMap, existingMetadata)
  ELSE MoovItemText(metaData, next, ilstEnd, itemCount, keysMap, existingMetadata,
                    dataOffset + 16, GetU32(metaData, dataOffset, FALSE) - 16)

\* One item, its size read as itemSize, itemCount already counting it.
MoovItem(metaData, itemOffset, ilstEnd, itemCount, keysMap, existingMetadata, itemSize) ==
  IF itemSize = 0 THEN Diverges
  ELSE IF itemSize <= 8
    THEN MoovItems(metaData, itemOffset + itemSize, ilstEnd, itemCount, keysMap,
                   existingMetadata)
  ELSE MoovItemData(metaData, itemOffset + 8, itemOffset + itemSize, ilstEnd,
                    itemCount, keysMap, existingMetadata)

\* The item loop over one ilst box of the existing meta box.
MoovItems(metaData, itemOffset, ilstEnd, itemCount, keysMap, existingMetadata) ==
  IF itemOffset >= ilstEnd \/ itemOffset + 8 > ilstEnd THEN Ok(existingMetadata)
  ELSE IF ~CanRead(metaData, itemOffset, 4) THEN Throw("RangeError")
  ELSE MoovItem(metaData, itemOffset, ilstEnd, itemCount + 1, keysMap,
                existingMetadata, GetU32(metaData, itemOffset, FALSE))

\* "offset += size" of the second loop, the turn's items read as items.
RECURSIVE MoovIlstScan(_, _, _, _)
MoovIlstNext(metaData, offset, keysMap, size, items) ==
  IF ~items.ok THEN items
  ELSE IF size = 0 THEN Diverges
  ELSE MoovIlstScan(metaData, offset + size, keysMap, items.val)

\* One child of the existing meta box in the second loop.
MoovIlstBox(metaData, offset, keysMap, existingMetadata, size) ==
  MoovIlstNext(metaData, offset, keysMap, size,
    IF BoxType(metaData, offset) = ilst
      THEN MoovItems(metaData, offset + 8, offset + size, 0, keysMap,
                     existingMetadata)
      ELSE Ok(existingMetadata))

\* The second while loop over the children of the existing meta box: every
\* ilst box met is read.
MoovIlstScan(metaData, offset, keysMap, existingMetadata) ==
  IF offset >= Len(metaData) \/ offset + 8 > Len(metaData)
    THEN Ok(existingMetadata)
  ELSE MoovIlstBox(metaData, offset, keysMap, existingMetadata,
                   GetU32(metaData, offset, FALSE))

\* The values read once the keys are scanned as scanned.
MoovValues(metaData, scanned) ==
  IF ~scanned.ok THEN scanned
  ELSE IF DOMAIN scanned.val = {} THEN Ok(<<>>)
  ELSE MoovIlstScan(metaData, 12, scanned.val, <<>>)

MoovMeta(metaData) == MoovValues(metaData, MoovKeysScan(metaData, 12, <<>>))

\* if (metaInfo) { ... }
MoovMetaFound(udtaData, metaInfo) ==
  IF ~metaInfo.found THEN Ok(<<>>)
  ELSE MoovMeta(Slice(udtaData, metaInfo.offset, metaInfo.offset + metaInfo.size))

\* The metadata injectMetadataIntoMoov reads from the meta box of the udta box.
ExistingFromMeta(udtaData) ==
  MoovMetaFound(udtaData, findBox(udtaData, 8, Len(udtaData), meta))

\* existingMetadata after the wflo check on the box at offset.
WfloTaken(udtaData, offset, existingMetadata, size) ==
  IF BoxType(udtaData, offset) = wflo /\ offset + 12 < Len(udtaData)
       /\ offset + size <= Len(udtaData)
       \* if (!existingMetadata.workflow)
       /\ RecGet(existingMetadata, Workflow) \in {Undefined, <<>>}
    THEN RecSet(existingMetadata, Workflow, Text(udtaData, offset + 12, offset + size))
    ELSE existingMetadata

\* One child of the udta box in the wflo loop.
RECURSIVE MoovWfloScan(_, _, _)
MoovWfloBox(udtaData, offset, existingMetadata, size) ==
  IF size = 0 THEN Diverges
  ELSE MoovWfloScan(udtaData, offset + size,
                    WfloTaken(udtaData, offset, existingMetadata, size))

\* The loop over the children of the udta box that looks for a wflo box.
MoovWfloScan(udtaData, offset, existingMetadata) ==
  IF offset >= Len(udtaData) \/ offset + 8 > Len(udtaData) THEN Ok(existingMetadata)
  ELSE MoovWfloBox(udtaData, offset, existingMetadata,
                   GetU32(udtaData, offset, FALSE))

\* A box header and content: 4-byte big-endian size, type, content.
Box(type, content) == U32Bytes(8 + Len(content), FALSE) \o type \o content

\* The wflo box createUdtaBox writes for a non-empty workflow value.
WfloBox(metadata) ==
  IF RecGet(metadata, Workflow) \in {Undefined, <<>>} THEN <<>>
  ELSE Box(wflo, U32Bytes(0, FALSE) \o TextEncode(RecGet(metadata, Workflow)))

\* The fixed 33-byte hdlr box: handler type 'mdta', empty name.
HdlrBox ==
  <<0, 0, 0, 33>> \o hdlr \o <<0, 0, 0, 0>> \o <<0, 0, 0, 0>> \o mdta
    \o <<0, 0, 0, 0, 0, 0, 0, 0>> \o <<0, 0, 0, 0, 0>>

RECURSIVE KeyEntries(_)
KeyEntries(metadata) ==
  IF metadata = <<>> THEN <<>>
  ELSE Box(mdta, TextEncode(Head(metadata)[1])) \o KeyEntries(Tail(metadata))

KeysBox(metadata) ==
  Box(keys, U32Bytes(0, FALSE) \o U32Bytes(Len(metadata), FALSE)
              \o KeyEntries(metadata))

\* The data box of an item: type 1 (text), locale 0, the value.
DataBox(valueBytes) == Box(data, U32Bytes(1, FALSE) \o U32Bytes(0, FALSE) \o valueBytes)

\* Item i (from 1): its size, its index, its data box.
IlstItem(i, dataBox) == U32Bytes(8 + Len(dataBox), FALSE) \o U32Bytes(i, FALSE) \o dataBox

\* The items of the ilst box: item i (from 1) holds one text data box.
RECURSIVE IlstItems(_, _)
IlstItems(metadata, i) ==
  IF i > Len(metadata) THEN <<>>
  ELSE IlstItem(i, DataBox(TextEncode(metadata[i][2]))) \o IlstItems(metadata, i + 1)

IlstBox(metadata) == Box(ilst, IlstItems(metadata, 1))

\* The meta box createUdtaBox writes when the record has keys.
MetaBox(metadata) ==
  IF Len(metadata) = 0 THEN <<>>
  ELSE Box(meta, U32Bytes(0, FALSE) \o HdlrBox \o KeysBox(metadata)
                   \o IlstBox(metadata))

createUdtaBox(metadata) == Box(udta, WfloBox(metadata) \o MetaBox(metadata))

\* Existing entries, then the incoming ones over them.
MergeMp4(existingMetadata, newMetadata) == RecAssignAll(existingMetadata, newMetadata)

\* The moov box put together with a header that states the length of the
\* parts kept from the input only.
MoovSizeKept(beforeUdta, modifiedUdta, afterUdta) ==
  U32Bytes(Len(beforeUdta) + Len(afterUdta), FALSE) \o moov
    \o SliceFrom(beforeUdta, 8) \o modifiedUdta \o afterUdta

\* The moov box put together again: a fresh 8-byte header that states the
\* sum of the three lengths, then the parts, the first without its first 8 bytes.
NewMoov(beforeUdta, modifiedUdta, afterUdta) ==
  U32Bytes(Len(beforeUdta) + Len(modifiedUdta) + Len(afterUdta), FALSE) \o moov
    \o SliceFrom(beforeUdta, 8) \o modifiedUdta \o afterUdta

\* The moov box rebuilt around the udta box at udtaInfo.
MoovRebuilt(moovData, udtaInfo, existing, newMetadata) ==
  IF ~existing.ok THEN existing
  ELSE Ok(NewMoov(Slice(moovData, 0, udtaInfo.offset),
                  createUdtaBox(MergeMp4(existing.val, newMetadata)),
                  SliceFrom(moovData, udtaInfo.offset + udtaInfo.size)))

\* existingMetadata after the meta box was read as fromMeta.
MoovExisting(udtaData, fromMeta) ==
  IF ~fromMeta.ok THEN fromMeta ELSE MoovWfloScan(udtaData, 8, fromMeta.val)

\* if (udtaInfo) { ... }, the udta box cut out as udtaData.
MoovWithUdta(moovData, udtaInfo, udtaData, newMetadata) ==
  MoovRebuilt(moovData, udtaInfo,
              MoovExisting(udtaData, ExistingFromMeta(udtaData)), newMetadata)

\* injectMetadataIntoMoov once the udta box was looked for.
MoovInjected(moovData, newMetadata, udtaInfo) ==
  IF udtaInfo.found
    THEN MoovWithUdta(moovData, udtaInfo,
           Slice(moovData, udtaInfo.offset, udtaInfo.offset + udtaInfo.size),
           newMetadata)
    \* a new udta box is appended to moov
    ELSE Ok(NewMoov(moovData, createUdtaBox(newMetadata), <<>>))

injectMetadataIntoMoov(moovData, newMetadata) ==
  MoovInjected(moovData, newMetadata, findBox(moovData, 8, Len(moovData), udta))

\* The file rebuilt around the modified moov box.
FileRebuilt(inputData, moovInfo, modifiedMoov) ==
  IF ~modifiedMoov.ok THEN modifiedMoov
  ELSE Ok(Slice(inputData, 0, moovInfo.offset) \o modifiedMoov.val
            \o SliceFrom(inputData, moovInfo.offset + moovInfo.size))

\* injectMetadata once the moov box was looked for.
FileInjected(inputData, newMetadata, moovInfo) ==
  IF ~moovInfo.found THEN Throw("No 'moov' box found in MP4 file")
  ELSE FileRebuilt(inputData, moovInfo,
         injectMetadataIntoMoov(
           Slice(inputData, moovInfo.offset, moovInfo.offset + moovInfo.size),
           newMetadata))

injectMetadata(inputData, newMetadata) ==
  FileInjected(inputData, newMetadata, findBox(inputData, 0, Len(inputData), moov))

\* What setMp4Metadata hands back or throws again.
Mp4SetResult(metadata, r) ==
  IF r.ok THEN [ok |-> TRUE, val |-> r.val, modifyRecords |-> metadata]
  ELSE [ok |-> FALSE, err |-> r.err, modifyRecords |-> metadata]

\* setMp4Metadata without the ftyp check.
Mp4SetUnchecked(buffer, metadata) ==
  Mp4SetResult(metadata, injectMetadata(buffer, metadata))

\* setMp4Metadata: errors are logged and thrown again.
setMp4Metadata(buffer, metadata) ==
  Mp4SetResult(metadata,
    IF ~hasFtypBox(buffer) THEN Throw("Not a valid MP4 file")
    ELSE injectMetadata(buffer, metadata))

----------------------------------------------------------------------------
(* Values and records the callers hand to set.                             *)

V1 == <<118, 49>>                            \* "v1"
V2 == <<118, 50>>                            \* "v2"
W0 == <<119, 48>>                            \* "w0"
W1 == <<119, 49>>                            \* "w1"
P0 == <<112, 48>>                            \* "p0"
N1 == <<110, 49>>                            \* "n1"
Broken == <<123, 34, 116, 34, 58, 32, 98>>   \* '{"t": b': malformed JSON
Big == [i \in 1..BigLen |-> 120]             \* "xxx...": a long opaque value
Blanks == <<32, 118, 49, 32>>                \* " v1 ": blanks at both ends

Prompt == <<112, 114, 111, 109, 112, 116>>   \* "prompt"
Note == <<110, 111, 116, 101>>               \* "note"

NoRecord == <<>>
NoGet == [ok |-> FALSE, err |-> "not called"]
NoArgs == [entries |-> <<>>, tailPadding |-> -1, isLittleEndian |-> TRUE]

\* The TIFF engine is not called on its own in the runs of the codecs.
TiffIdle ==
  /\ tiffArgs = NoArgs
  /\ tiffData = Whole(<<>>)
  /\ decoded = NoGet
  /\ tiffOp = "init"

----------------------------------------------------------------------------
(* Input files of the WEBP runs, built byte by byte.                       *)

VP8 == <<86, 80, 56, 32>>
XMP == <<88, 77, 80, 32>>

\* The bytes of the ASCII entry "key:value\0".
Asc(key, value) == key \o <<Colon>> \o value \o <<0>>

\* A RIFF chunk: type, little-endian length, payload, pad byte if odd.
Chunk(type, payload) ==
  type \o U32Bytes(Len(payload), TRUE) \o payload
       \o (IF Len(payload) % 2 = 1 THEN <<0>> ELSE <<>>)

Riff(chunks) == RIFF \o U32Bytes(4 + Len(chunks), TRUE) \o WEBP \o chunks

RECURSIVE RawFields(_, _)
RawFields(fields, le) ==
  IF fields = <<>> THEN <<>>
  ELSE LET f == Head(fields)
       IN  U16Bytes(f[1], le) \o U16Bytes(f[2], le) \o U32Bytes(f[3], le)
             \o U32Bytes(f[4], le) \o RawFields(Tail(fields), le)

\* A TIFF block written out field by field: gap is what lies between the
\* header and the IFD, fields are <<tag, type, count, offset field>>, area is
\* everything after the next-IFD field.
RawTiff(le, gap, fields, area) ==
  (IF le THEN II ELSE MM) \o U16Bytes(42, le) \o U32Bytes(8 + Len(gap), le) \o gap
    \o U16Bytes(Len(fields), le) \o RawFields(fields, le) \o U32Bytes(0, le) \o area

\* Values stored one after the other from offset at, word-aligned or packed.
RECURSIVE LayoutValues(_, _, _, _)
LayoutValues(ents, i, at, aligned) ==
  IF i > Len(ents) THEN [fields |-> <<>>, area |-> <<>>]
  ELSE
    LET pad == IF aligned THEN at % 2 ELSE 0
        rest == LayoutValues(ents, i + 1, at + pad + Len(ents[i].value), aligned)
    IN  [fields |-> <<<<ents[i].tag, ents[i].type, Len(ents[i].value), at + pad>>>>
                      \o rest.fields,
         area |-> Zeros(pad) \o ents[i].value \o rest.area]

Tiff(le, gap, ents, aligned, tail) ==
  LET laid == LayoutValues(ents, 1, 8 + Len(gap) + 2 + 12 * Len(ents) + 4, aligned)
  IN  RawTiff(le, gap, laid.fields, laid.area \o tail)

EWorkflow(v) == [tag |-> 271, type |-> 2, value |-> Asc(Workflow, v)]
EPrompt(v) == [tag |-> 272, type |-> 2, value |-> Asc(Prompt, v)]
EBinary == [tag |-> 37510, type |-> 7, value |-> <<1, 2, 3, 4>>]
EConstructor ==
  [tag |-> 270, type |-> 2,
   value |-> Asc(<<99, 111, 110, 115, 116, 114, 117, 99, 116, 111, 114>>, <<120>>)]
ENoColon == [tag |-> 270, type |-> 2,
             value |-> <<110, 111, 99, 111, 108, 111, 110, 0>>]

Image == Chunk(VP8, <<1, 2, 3, 4>>)
XmpPacket == Chunk(XMP, <<60, 63, 120, 112, 97, 99, 107, 101, 116, 62>>)

OddTiff == Tiff(TRUE, <<>>, <<EWorkflow(<<119>>)>>, TRUE, <<>>)
WorkflowChunk == Chunk(EXIF, Tiff(TRUE, <<>>, <<EWorkflow(W0)>>, TRUE, <<>>))

WebpInputs ==
  [plain      |-> Riff(Image),
   plainOdd   |-> Riff(Chunk(VP8, <<1, 2, 3>>)),
   \* the EXIF chunk the editor itself writes into a file that had none
   own        |-> Riff(Image \o Chunk(EXIF, ExifMarker
                    \o Tiff(TRUE, <<>>, <<EWorkflow(W0)>>, TRUE, <<>>))),
   \* no Exif marker, an odd-length value before the workflow
   two        |-> Riff(Image \o Chunk(EXIF,
                    Tiff(TRUE, <<>>, <<EPrompt(<<112>>), EWorkflow(W0)>>, TRUE, <<>>))),
   \* big-endian, no workflow, odd chunk length
   bigEndian  |-> Riff(Image \o Chunk(EXIF,
                    Tiff(FALSE, <<>>, <<EPrompt(<<112>>)>>, TRUE, <<>>))),
   \* two entries keyed workflow
   twice      |-> Riff(Image \o Chunk(EXIF,
                    Tiff(TRUE, <<>>, <<EWorkflow(W0), EWorkflow(W1)>>, TRUE, <<>>))),
   \* values stored without word padding, one spare byte at the end
   packed     |-> Riff(Image \o Chunk(EXIF,
                    Tiff(TRUE, <<>>, <<EPrompt(<<112>>), EWorkflow(W0)>>, FALSE, <<0>>))),
   \* values stored without word padding, nothing after them
   packedEnd  |-> Riff(Image \o Chunk(EXIF,
                    Tiff(TRUE, <<>>, <<EPrompt(<<112>>), EWorkflow(W0)>>, FALSE, <<>>))),
   \* a non-ASCII entry with its bytes in the value area
   binary     |-> Riff(Image \o Chunk(EXIF,
                    Tiff(TRUE, <<>>, <<EBinary, EWorkflow(W0)>>, TRUE, <<>>))),
   \* Orientation = 1 as TIFF stores it: SHORT, count 1, value in the offset field
   inline     |-> Riff(Image \o Chunk(EXIF,
                    RawTiff(TRUE, <<>>, <<<<274, 3, 1, 1>>, <<272, 2, 10, 38>>>>,
                            Asc(Prompt, P0)))),
   \* the IFD two bytes further than the header
   ifdAt10    |-> Riff(Image \o Chunk(EXIF,
                    Tiff(TRUE, <<0, 0>>, <<EWorkflow(W0)>>, TRUE, <<>>))),
   \* bytes after the last value: non-zero, zero
   tailBytes  |-> Riff(Image \o Chunk(EXIF,
                    Tiff(TRUE, <<>>, <<EWorkflow(W0)>>, TRUE, <<7, 7>>))),
   tailZeros  |-> Riff(Image \o Chunk(EXIF,
                    Tiff(TRUE, <<>>, <<EWorkflow(W0)>>, TRUE, <<0, 0>>))),
   \* an odd-length EXIF payload holding the workflow
   oddExif    |-> Riff(Image \o Chunk(EXIF,
                    Tiff(TRUE, <<>>, <<EWorkflow(<<119>>)>>, TRUE, <<>>))),
   \* an ASCII entry without a colon
   noColon    |-> Riff(Image \o Chunk(EXIF,
                    Tiff(TRUE, <<>>, <<ENoColon, EPrompt(P0)>>, TRUE, <<>>))),
   \* the EXIF chunk is not the last chunk
   exifThenXmp |-> Riff(Image \o Chunk(EXIF, ExifMarker
                    \o Tiff(TRUE, <<>>, <<EPrompt(P0), EWorkflow(W0)>>, TRUE, <<>>))
                    \o XmpPacket),
   exifFirst  |-> Riff(Chunk(EXIF,
                    Tiff(TRUE, <<>>, <<EWorkflow(W0)>>, TRUE, <<>>)) \o Image),
   \* the RIFF size field does not count the last two bytes of the file
   riffSize   |-> RIFF \o U32Bytes(2 + Len(Image \o WorkflowChunk), TRUE) \o WEBP
                    \o Image \o WorkflowChunk,
   \* an odd-length EXIF payload followed by a pad byte that is not zero
   padByte    |-> Riff(Image \o EXIF \o U32Bytes(Len(OddTiff), TRUE)
                    \o OddTiff \o <<9>>),
   \* the workflow entry holds the empty string
   blank      |-> Riff(Image \o Chunk(EXIF,
                    Tiff(TRUE, <<>>, <<EPrompt(P0), EWorkflow(<<>>)>>, TRUE, <<>>))),
   \* an entry keyed with a name every object inherits
   inherited  |-> Riff(Image \o Chunk(EXIF,
                    Tiff(TRUE, <<>>, <<EConstructor, EWorkflow(W0)>>, TRUE, <<>>)))]

WebpRecords ==
  {RecordOf(<<<<Workflow, V1>>>>),
   RecordOf(<<<<Workflow, V2>>>>),
   RecordOf(<<<<Workflow, Broken>>>>),
   RecordOf(<<<<Workflow, Big>>>>),
   RecordOf(<<<<Note, N1>>, <<Workflow, V1>>>>)}

----------------------------------------------------------------------------
(* The callers: a file is read with get and rewritten with set, any number *)
(* of times.                                                               *)

InitOn(inputs) ==
  /\ buf \in {inputs[n] : n \in DOMAIN inputs}
  /\ prev = <<>>
  /\ rec = NoRecord
  /\ recAfter = NoRecord
  /\ outcome = "none"
  /\ got = NoGet
  /\ op = "init"
  /\ nsets = 0
  /\ written = {}
  /\ TiffIdle

\* The state after a set call that handed r and ended as res.
AfterSet(r, res) ==
  /\ prev' = buf
  /\ rec' = r
  /\ recAfter' = res.modifyRecords
  /\ outcome' = IF res.ok THEN "ok" ELSE res.err
  /\ buf' = IF res.ok THEN res.val ELSE buf
  /\ got' = NoGet
  /\ op' = "set"
  /\ nsets' = nsets + 1
  /\ written' = written \cup
                  (IF outcome = "ok" /\ RecOwns(rec, Workflow)
                     THEN {RecGet(rec, Workflow)} ELSE {})
  /\ UNCHANGED tiffVars

AfterGet(res) ==
  /\ got' = res
  /\ op' = "get"
  /\ UNCHANGED <<buf, prev, rec, recAfter, outcome, nsets, written>>
  /\ UNCHANGED tiffVars

\* "if (!workflow) continue" goes on to the set call: the workflow a get
\* returned is there and is not the empty string.
HasWorkflow(g) ==
  g.ok /\ g.val # Null /\ RecGet(g.val, Workflow) \notin {Undefined, <<>>}

\* What a get returned has a workflow field.
YieldsWorkflow(g) == g.ok /\ g.val # Null /\ RecOwns(g.val, Workflow)

WebpGet ==
  /\ op # "get"
  /\ AfterGet(getWebpMetadata(buf))

WebpSet(r) ==
  /\ nsets < MaxSets
  /\ AfterSet(r, setWebpMetadata(buf, r))

\* Save again what was just read: set(buffer, {workflow: get(buffer).workflow}).
WebpResave ==
  /\ nsets < MaxSets
  /\ op = "get"
  /\ HasWorkflow(got)
  /\ LET r == RecordOf(<<<<Workflow, RecGet(got.val, Workflow)>>>>)
     IN  AfterSet(r, setWebpMetadata(buf, r))

InitWebp == InitOn(WebpInputs)

NextWebp ==
  \/ WebpGet
  \/ \E r \in WebpRecords : WebpSet(r)
  \/ WebpResave

SpecWebp == InitWebp /\ [][NextWebp]_vars

----------------------------------------------------------------------------
(* Input files of the FLAC runs.                                           *)

U24Bytes(n) == <<(n \div 65536) % 256, (n \div 256) % 256, n % 256>>

\* A metadata block: flag and type byte, 24-bit big-endian size, payload.
Block(type, last, payload) ==
  <<(IF last THEN 128 ELSE 0) + type>> \o U24Bytes(Len(payload)) \o payload

RECURSIVE CommentList(_)
CommentList(comments) ==
  IF comments = <<>> THEN <<>>
  ELSE U32Bytes(Len(Head(comments)), TRUE) \o Head(comments)
         \o CommentList(Tail(comments))

\* The payload of a Vorbis comment block with the vendor string "ref".
Vorbis(comments) ==
  U32Bytes(3, TRUE) \o <<114, 101, 102>> \o U32Bytes(Len(comments), TRUE)
    \o CommentList(comments)

Comment(key, value) == key \o <<EqualsSign>> \o value

Title == <<116, 105, 116, 108, 101>>         \* "title"
T0 == <<116, 48>>                            \* "t0"
T1 == <<116, 49>>                            \* "t1"
EAcute == <<233>>                            \* "é" as a string
EAcuteUtf8 == <<195, 169>>                   \* "é" as the file stores it

StreamInfo == Block(0, FALSE, <<16, 0, 16, 0, 0, 0, 0, 0, 0, 0>>)
StreamInfoLast == Block(0, TRUE, <<16, 0, 16, 0, 0, 0, 0, 0, 0, 0>>)
PaddingLast == Block(1, TRUE, <<0, 0>>)
Frames == <<255, 248, 201, 24>>

FlacInputs ==
  [\* the Vorbis comment block is the last metadata block
   last      |-> fLaC \o StreamInfo
                   \o Block(4, TRUE, Vorbis(<<Comment(Workflow, W0)>>)) \o Frames,
   lastTwo   |-> fLaC \o StreamInfo
                   \o Block(4, TRUE, Vorbis(<<Comment(Title, T0),
                                              Comment(Workflow, W0)>>)) \o Frames,
   noComment |-> fLaC \o StreamInfo \o Block(4, TRUE, Vorbis(<<>>)) \o Frames,
   \* a padding block carries the last-block flag
   middle    |-> fLaC \o StreamInfo
                   \o Block(4, FALSE, Vorbis(<<Comment(Title, T0),
                                               Comment(Workflow, W0)>>))
                   \o PaddingLast \o Frames,
   first     |-> fLaC \o Block(4, FALSE, Vorbis(<<Comment(Workflow, W0)>>))
                   \o StreamInfoLast \o Frames,
   \* no Vorbis comment block
   noVorbis  |-> fLaC \o StreamInfoLast \o Frames,
   \* two comments with the same key
   dupKeys   |-> fLaC \o StreamInfo
                   \o Block(4, TRUE, Vorbis(<<Comment(Workflow, W0),
                                              Comment(Workflow, W1)>>)) \o Frames,
   \* a comment without '='
   noEquals  |-> fLaC \o StreamInfo
                   \o Block(4, TRUE, Vorbis(<<Comment(Workflow, W0), Note>>))
                   \o Frames,
   \* a value that is not ASCII, stored as UTF-8
   accent    |-> fLaC \o StreamInfo
                   \o Block(4, TRUE, Vorbis(<<Comment(Title, EAcuteUtf8),
                                              Comment(Workflow, W0)>>)) \o Frames,
   \* a key that is an array index, after another key
   indexKey  |-> fLaC \o StreamInfo
                   \o Block(4, TRUE, Vorbis(<<Comment(Workflow, W0),
                                              Comment(<<55>>, T0)>>)) \o Frames,
   \* bytes left in the block after the last comment
   spare     |-> fLaC \o StreamInfo
                   \o Block(4, TRUE, Vorbis(<<Comment(Workflow, W0)>>) \o <<0, 0>>)
                   \o Frames,
   \* no block carries the last-block flag and no audio follows
   noFlag    |-> fLaC \o StreamInfo
                   \o Block(4, FALSE, Vorbis(<<Comment(Workflow, W0)>>)),
   \* two Vorbis comment blocks
   twoBlocks |-> fLaC \o Block(4, FALSE, Vorbis(<<Comment(Title, T0)>>))
                   \o Block(4, TRUE, Vorbis(<<Comment(Workflow, W0)>>)) \o Frames,
   \* the length of the second comment runs past the end of the block
   overrun   |-> fLaC \o StreamInfo
                   \o Block(4, TRUE, U32Bytes(3, TRUE) \o <<114, 101, 102>>
                                        \o U32Bytes(2, TRUE)
                                        \o CommentList(<<Comment(Title, T0)>>)
                                        \o U32Bytes(99, TRUE) \o Comment(Workflow, W0))
                   \o Frames,
   \* the comment count states one comment more than the block holds
   overCount |-> fLaC \o StreamInfo
                   \o Block(4, TRUE, U32Bytes(3, TRUE) \o <<114, 101, 102>>
                                        \o U32Bytes(2, TRUE)
                                        \o CommentList(<<Comment(Title, T0)>>))
                   \o Frames,
   \* the workflow comment holds the empty string
   blank     |-> fLaC \o StreamInfo
                   \o Block(4, TRUE, Vorbis(<<Comment(Title, T0),
                                              Comment(Workflow, <<>>)>>)) \o Frames]

FlacRecords ==
  {RecordOf(<<<<Workflow, V1>>>>),
   RecordOf(<<<<Workflow, V2>>>>),
   RecordOf(<<<<Workflow, EAcute>>>>),
   RecordOf(<<<<Title, T1>>>>),
   RecordOf(<<<<Note, N1>>, <<Workflow, V1>>>>)}

FlacGet ==
  /\ op # "get"
  /\ AfterGet(getFlacMetadata(buf))

FlacSet(r) ==
  /\ nsets < MaxSets
  /\ AfterSet(r, setFlacMetadata(buf, r))

\* Save again what was just read: set(buffer, {workflow: get(buffer).workflow}).
FlacResave ==
  /\ nsets < MaxSets
  /\ op = "get"
  /\ HasWorkflow(got)
  /\ LET r == RecordOf(<<<<Workflow, RecGet(got.val, Workflow)>>>>)
     IN  AfterSet(r, setFlacMetadata(buf, r))

InitFlac == InitOn(FlacInputs)

NextFlac ==
  \/ FlacGet
  \/ \E r \in FlacRecords : FlacSet(r)
  \/ FlacResave

SpecFlac == InitFlac /\ [][NextFlac]_vars

----------------------------------------------------------------------------
(* Input files of the MP4 runs.                                            *)

Ftyp == Box(ftyp, <<105, 115, 111, 109, 0, 0, 0, 0>>)
Mvhd == Box(<<109, 118, 104, 100>>, <<0, 0, 0, 0>>)
Trak == Box(<<116, 114, 97, 107>>, <<5, 6>>)
Mdat == Box(<<109, 100, 97, 116>>, <<1, 2, 3, 4>>)

\* A '©nam' atom: header, version and flags, text.
NameAtom(text) == Box(<<CopyrightSign, 110, 97, 109>>, U32Bytes(0, FALSE) \o text)

Nam == <<110, 97, 109>>                      \* "nam"

\* The uuid box that carries a workflow.
UuidBox(text) == Box(uuid, WORKFLOW_UUID \o text)

\* A box with the 16-byte header: size 1, type, 64-bit size.
WideBox(type, content) ==
  U32Bytes(1, FALSE) \o type \o U32Bytes(0, FALSE) \o U32Bytes(16 + Len(content), FALSE)
    \o content

\* A box whose header states size 0.
OpenBox(type, content) == U32Bytes(0, FALSE) \o type \o content

\* The record of the keys box and the ilst box of the inputs below.
TitleWorkflow == RecordOf(<<<<Title, T0>>, <<Workflow, W0>>>>)

\* A udta box that holds a meta box alone, with the given children.
MetaUdta(children) == Box(udta, Box(meta, U32Bytes(0, FALSE) \o HdlrBox \o children))

\* Three items: a data box of type 0 (binary), no data box at all, a text.
MixedItems ==
  IlstItem(1, Box(data, U32Bytes(0, FALSE) \o U32Bytes(0, FALSE) \o <<1, 2>>))
    \o IlstItem(2, <<>>)
    \o IlstItem(3, DataBox(W0))

Mp4Inputs ==
  [\* moov has no udta box
   bare      |-> Ftyp \o Box(moov, Mvhd \o Trak) \o Mdat,
   moovLast  |-> Ftyp \o Mdat \o Box(moov, Mvhd),
   \* the udta box the editor writes
   own       |-> Ftyp \o Box(moov, Mvhd
                   \o createUdtaBox(RecordOf(<<<<Workflow, W0>>>>))) \o Mdat,
   fields    |-> Ftyp \o Box(moov, Mvhd
                   \o createUdtaBox(RecordOf(<<<<Title, T0>>, <<Workflow, W0>>>>))
                   \o Trak) \o Mdat,
   \* fields and no workflow
   titled    |-> Ftyp \o Box(moov, Mvhd
                   \o createUdtaBox(RecordOf(<<<<Title, T0>>>>))) \o Mdat,
   \* a legacy wflo box alone in udta
   legacy    |-> Ftyp \o Box(moov, Box(udta, Box(wflo, U32Bytes(0, FALSE) \o W0))
                   \o Mvhd) \o Mdat,
   \* a '©nam' atom in udta
   named     |-> Ftyp \o Box(moov, Mvhd \o Box(udta, NameAtom(T0))) \o Mdat,
   namedToo  |-> Ftyp \o Box(moov, Mvhd
                   \o Box(udta, NameAtom(T0)
                        \o MetaBox(RecordOf(<<<<Workflow, W0>>>>)))) \o Mdat,
   \* a workflow in a uuid box after moov
   uuidAfter |-> Ftyp \o Box(moov, Mvhd) \o Mdat \o UuidBox(W0),
   uuidFirst |-> Ftyp \o UuidBox(W0) \o Box(moov, Mvhd) \o Mdat,
   \* a legacy wflo box in a udta box that is not the one in moov
   wfloAfter |-> Ftyp \o Box(moov, Mvhd) \o Mdat
                   \o Box(udta, Box(wflo, U32Bytes(0, FALSE) \o W0)),
   \* a meta box outside udta
   metaAfter |-> Ftyp \o Box(moov, Mvhd) \o Mdat
                   \o MetaBox(RecordOf(<<<<Title, T0>>>>)),
   \* the moov header states size 1 and a 64-bit size
   wide      |-> Ftyp \o WideBox(moov, Mvhd
                   \o createUdtaBox(RecordOf(<<<<Workflow, W0>>>>)) \o Trak) \o Mdat,
   wideBare  |-> Ftyp \o WideBox(moov, Mvhd \o Trak) \o Mdat,
   \* the moov header states size 0: the box runs to the end of the file
   toEnd     |-> Ftyp \o Mdat \o OpenBox(moov, Mvhd
                   \o createUdtaBox(RecordOf(<<<<Title, T0>>>>)) \o Trak),
   toEndBare |-> Ftyp \o Mdat \o OpenBox(moov, Mvhd \o Trak),
   \* a meta box alone in udta: keys before ilst, keys after ilst
   keysFirst |-> Ftyp \o Box(moov, Mvhd
                   \o MetaUdta(KeysBox(TitleWorkflow) \o IlstBox(TitleWorkflow)))
                   \o Mdat,
   keysLast  |-> Ftyp \o Box(moov, Mvhd
                   \o MetaUdta(IlstBox(TitleWorkflow) \o KeysBox(TitleWorkflow)))
                   \o Mdat,
   \* three keys, and items of which only the third holds a text
   mixed     |-> Ftyp \o Box(moov, Mvhd
                   \o MetaUdta(KeysBox(RecordOf(<<<<Title, T0>>, <<Note, N1>>,
                                                  <<Workflow, W0>>>>))
                               \o Box(ilst, MixedItems))) \o Mdat]

Mp4Records ==
  {RecordOf(<<<<Workflow, V1>>>>),
   RecordOf(<<<<Workflow, V2>>>>),
   RecordOf(<<<<Workflow, Blanks>>>>),
   RecordOf(<<<<Workflow, Broken>>>>),
   RecordOf(<<<<Title, T1>>, <<Workflow, V1>>>>)}

Mp4Get ==
  /\ op # "get"
  /\ AfterGet(getMp4Metadata(Whole(buf)))

Mp4Set(r) ==
  /\ nsets < MaxSets
  /\ AfterSet(r, setMp4Metadata(buf, r))

InitMp4 == InitOn(Mp4Inputs)

NextMp4 ==
  \/ Mp4Get
  \/ \E r \in Mp4Records : Mp4Set(r)

SpecMp4 == InitMp4 /\ [][NextMp4]_vars

----------------------------------------------------------------------------
(* Any buffer handed to any codec: files that are cut short, carry no      *)
(* signature or carry the signature of another container, next to one      *)
(* sound file of each container.                                           *)

\* An ilst item whose data box states 12 bytes, less than its own 16-byte head.
ShortDataItem == IlstItem(1, U32Bytes(12, FALSE) \o data \o U32Bytes(1, FALSE) \o U32Bytes(0, FALSE))

\* An item of 30 bytes whose text is "w0XYZ!".
LongItem == IlstItem(2, DataBox(W0 \o <<88, 89, 90, 33>>))

\* A file that ends n bytes into its last item: the item states its 30 bytes,
\* the boxes around it end where the file ends.
CutItemFile(n) ==
  Ftyp \o Box(moov, MetaUdta(KeysBox(TitleWorkflow)
                              \o Box(ilst, IlstItem(1, DataBox(T0))
                                             \o Slice(LongItem, 0, n))))

\* Files handed to getMp4Metadata as a part of a larger buffer (subarray).
Mp4Parts ==
  [\* the file ends two bytes into the text of its last item; the buffer
   \* holds the rest of the item
   textCut  |-> ViewOf(CutItemFile(26) \o Slice(LongItem, 26, 30), 0,
                       Len(CutItemFile(26))),
   \* the file ends after the size field of the box in its last item; the
   \* buffer goes on with other bytes
   typeCut  |-> ViewOf(CutItemFile(12) \o <<102, 114, 101, 101, 0, 0, 0, 1>>, 0,
                       Len(CutItemFile(12))),
   \* four other bytes lie before the file
   uuidPart |-> ViewOf(<<9, 9, 9, 9>> \o Mp4Inputs.uuidFirst, 4,
                       Len(Mp4Inputs.uuidFirst))]

AnyInputs ==
  [\* the buffers of which a part is a file
   textCut   |-> Mp4Parts.textCut.buffer,
   typeCut   |-> Mp4Parts.typeCut.buffer,
   uuidPart  |-> Mp4Parts.uuidPart.buffer,
   empty     |-> <<>>,
   \* shorter than 4 bytes
   three     |-> <<82, 73, 70>>,
   \* shorter than 8 bytes
   six       |-> <<0, 0, 0, 16, 102, 116>>,
   \* new ArrayBuffer(10)
   zeros10   |-> Zeros(10),
   \* 10 bytes that spell no signature at all
   tenBytes  |-> <<1, 2, 3, 4, 5, 6, 7, 8, 9, 10>>,
   \* 'RIFF' and a size, nothing else
   riffOnly  |-> RIFF \o U32Bytes(0, TRUE),
   \* a RIFF file of another form type
   riffWave  |-> RIFF \o U32Bytes(4, TRUE) \o <<87, 65, 86, 69>>,
   \* a chunk header cut after 3 bytes
   cutChunk  |-> Riff(Image) \o <<69, 88, 73>>,
   \* an EXIF chunk whose TIFF block ends after 4 bytes
   badTiff   |-> Riff(Image \o Chunk(EXIF, <<73, 73, 42, 0>>)),
   webp      |-> Riff(Image \o Chunk(EXIF, ExifMarker
                   \o Tiff(TRUE, <<>>, <<EWorkflow(W0)>>, TRUE, <<>>))),
   webpPlain |-> Riff(Image),
   \* an ftyp box and no moov box
   noMoov    |-> Ftyp \o Mdat,
   \* a box header cut after its size
   cutBox    |-> Ftyp \o Box(moov, Mvhd) \o <<0, 0, 0, 1>> \o moov \o <<0, 0>>,
   \* an item that cannot be read
   badItem   |-> Ftyp \o Box(moov, Box(udta, Box(meta, U32Bytes(0, FALSE) \o HdlrBox
                   \o KeysBox(RecordOf(<<<<Workflow, W0>>>>))
                   \o Box(ilst, ShortDataItem)))) \o Mdat,
   \* a child of udta that states size 0
   zeroChild |-> Ftyp \o Box(moov, Box(udta, OpenBox(wflo, U32Bytes(0, FALSE) \o W0)))
                   \o Mdat,
   \* a top-level box that states size 4, less than its header
   tinyBox   |-> Ftyp \o <<0, 0, 0, 4, 102, 114, 101, 101>> \o Box(moov, Mvhd),
   \* an item that states size 0
   zeroItem  |-> Ftyp \o Box(moov, Box(udta, Box(meta, U32Bytes(0, FALSE) \o HdlrBox
                   \o KeysBox(RecordOf(<<<<Workflow, W0>>>>))
                   \o Box(ilst, U32Bytes(0, FALSE) \o U32Bytes(1, FALSE))))) \o Mdat,
   mp4       |-> Ftyp \o Box(moov, Mvhd
                   \o createUdtaBox(RecordOf(<<<<Workflow, W0>>>>))) \o Mdat,
   mp4Bare   |-> Ftyp \o Box(moov, Mvhd \o Trak) \o Mdat,
   \* a block header cut after 2 bytes
   cutBlock  |-> fLaC \o <<0, 0>>,
   flac      |-> fLaC \o StreamInfo
                   \o Block(4, TRUE, Vorbis(<<Comment(Workflow, W0)>>)) \o Frames]

AnyRecords ==
  {RecordOf(<<<<Workflow, V1>>>>),
   RecordOf(<<<<Note, N1>>, <<Workflow, V1>>>>)}

\* The state after the codec function named name returned or threw res.
AnyAfterGet(name, res) ==
  /\ got' = res
  /\ op' = name
  /\ UNCHANGED <<buf, prev, rec, recAfter, outcome, nsets, written>>
  /\ UNCHANGED tiffVars

AnyAfterSet(name, r, res) ==
  /\ prev' = buf
  /\ rec' = r
  /\ recAfter' = res.modifyRecords
  /\ outcome' = IF res.ok THEN "ok" ELSE res.err
  /\ buf' = IF res.ok THEN res.val ELSE buf
  /\ got' = NoGet
  /\ op' = name
  /\ nsets' = nsets + 1
  /\ written' = written \cup
                  (IF outcome = "ok" /\ RecOwns(rec, Workflow)
                     THEN {RecGet(rec, Workflow)} ELSE {})
  /\ UNCHANGED tiffVars

AnyWebpGet ==
  /\ op # "getWebpMetadata"
  /\ AnyAfterGet("getWebpMetadata", getWebpMetadata(buf))

AnyMp4Get ==
  /\ op # "getMp4Metadata"
  /\ AnyAfterGet("getMp4Metadata", getMp4Metadata(Whole(buf)))

\* getMp4Metadata(new Uint8Array(buffer, byteOffset, length)): the file is a
\* part of the buffer the caller holds.
AnyMp4GetPart(part) ==
  /\ part.buffer = buf
  /\ op # "getMp4Metadata(subarray)"
  /\ AnyAfterGet("getMp4Metadata(subarray)", getMp4Metadata(part))

AnyFlacGet ==
  /\ op # "getFlacMetadata"
  /\ AnyAfterGet("getFlacMetadata", getFlacMetadata(buf))

AnyWebpSet(r) ==
  /\ nsets < MaxSets
  /\ AnyAfterSet("setWebpMetadata", r, setWebpMetadata(buf, r))

AnyMp4Set(r) ==
  /\ nsets < MaxSets
  /\ AnyAfterSet("setMp4Metadata", r, setMp4Metadata(buf, r))

AnyFlacSet(r) ==
  /\ nsets < MaxSets
  /\ AnyAfterSet("setFlacMetadata", r, setFlacMetadata(buf, r))

InitAny == InitOn(AnyInputs)

NextAny ==
  \/ AnyWebpGet
  \/ AnyMp4Get
  \/ \E n \in DOMAIN Mp4Parts : AnyMp4GetPart(Mp4Parts[n])
  \/ AnyFlacGet
  \/ \E r \in AnyRecords : AnyWebpSet(r)
  \/ \E r \in AnyRecords : AnyMp4Set(r)
  \/ \E r \in AnyRecords : AnyFlacSet(r)

SpecAny == InitAny /\ [][NextAny]_vars

----------------------------------------------------------------------------
(* What the WEBP properties are stated with.                               *)

\* getAllChunks of the WEBP tests: the chunks met walking from offset by
\* 8 + chunk_length + (chunk_length % 2), each as the bytes slice() returns.
RECURSIVE getAllChunks(_, _, _)
getAllChunks(webp, offset, chunks) ==
  IF offset >= Len(webp) THEN Ok(chunks)
  ELSE IF ~CanRead(webp, offset + 4, 4) THEN Throw("RangeError")
  ELSE getAllChunks(webp,
         offset + 8 + GetU32(webp, offset + 4, TRUE)
                + (GetU32(webp, offset + 4, TRUE) % 2),
         Append(chunks,
           Slice(webp, offset,
                 offset + 8 + GetU32(webp, offset + 4, TRUE)
                        + (GetU32(webp, offset + 4, TRUE) % 2))))

\* A chunk as cut out by the walk is whole: header, payload and pad byte are
\* all there, so the walk moved on by exactly the length of the slice.
WholeChunk(chunk) ==
  /\ Len(chunk) >= 8
  /\ Len(chunk) = 8 + GetU32(chunk, 4, TRUE) + (GetU32(chunk, 4, TRUE) % 2)

\* The walk over the chunks of webp ends exactly at the end of the buffer.
EndsAtEnd(walk) == walk.ok /\ \A i \in 1..Len(walk.val) : WholeChunk(walk.val[i])

\* Every chunk the walk cut out has an even total length.
EvenChunks(walk) == walk.ok /\ \A i \in 1..Len(walk.val) : Len(walk.val[i]) % 2 = 0

WellFramed(webp) == EndsAtEnd(getAllChunks(webp, 12, <<>>))

\* The strings of the ASCII entries of every EXIF chunk of a well-framed file.
ChunkAscii(tiff) ==
  IF tiff.ok THEN {tiff.val.entries[i].ascii : i \in 1..Len(tiff.val.entries)}
  ELSE {}

ExifBlock(chunk) ==
  Slice(chunk, 8 + ExifHeaderLength(chunk, 8), 8 + GetU32(chunk, 4, TRUE))

ExifAscii(walk) ==
  IF ~walk.ok THEN {}
  ELSE UNION {IF Slice(walk.val[i], 0, 4) = EXIF
                THEN ChunkAscii(decodeTIFFBlock(Whole(ExifBlock(walk.val[i]))))
                ELSE {} : i \in 1..Len(walk.val)}

\* Some EXIF entry of webp reads "workflow:v".
CarriesWorkflow(webp, v) ==
  (Workflow \o <<Colon>> \o v) \in ExifAscii(getAllChunks(webp, 12, <<>>))

\* What get returned, or would return, for the file the last set was given.
WebpBefore == getWebpMetadata(prev)

\* The last set call returned a file and was handed a workflow.
Saved == nsets > 0 /\ outcome = "ok" /\ RecOwns(rec, Workflow)

\* The file was read back after such a call.
ReadBack == op = "get" /\ Saved

\* C1: reading a WEBP file back after setWebpMetadata(b, r) returned, with
\* r.workflow defined, yields r.workflow, whatever EXIF chunk b had and
\* whatever the value is.
C1_WebpRoundTrip ==
  ReadBack =>
    (YieldsWorkflow(got) /\ RecGet(got.val, Workflow) = RecGet(rec, Workflow))

\* C4: after two or more successful saves that each supplied a workflow, the
\* file reads back as the workflow of the last save, and no EXIF entry of it
\* carries a workflow an earlier save wrote.
C4_WebpOverwrite ==
  (ReadBack /\ written # {}) =>
    /\ got.ok
    /\ RecGet(got.val, Workflow) = RecGet(rec, Workflow)
    /\ \A v \in written \ {RecGet(rec, Workflow)} : ~CarriesWorkflow(buf, v)

\* The record of the last set call held the key workflow and nothing else.
OnlyWorkflow == RecKeySet(rec) = {Workflow}

\* The keys other than workflow that get returns for the file handed to the
\* last set call.
WebpOtherKeys == RecKeySet(WebpBefore.val) \ {Workflow}

\* C5: every key other than workflow that get returns for a WEBP file is
\* returned with the same value for the file setWebpMetadata(b, {workflow: x})
\* makes of it; the call has to return a file for that.
C5_WebpFieldPreservation ==
  /\ (op = "set" /\ OnlyWorkflow /\ WebpBefore.ok /\ WebpOtherKeys # {})
       => outcome = "ok"
  /\ (ReadBack /\ OnlyWorkflow /\ WebpBefore.ok)
       => \A k \in WebpOtherKeys :
            got.ok /\ RecOwns(got.val, k)
                   /\ RecGet(got.val, k) = RecGet(WebpBefore.val, k)

\* C10: in a file setWebpMetadata returns for a well-framed input, the chunk
\* walk from offset 12 ends exactly at the end of the buffer and every chunk
\* it cuts out has an even total length.
C10_WebpFraming ==
  (op = "set" /\ outcome = "ok" /\ WellFramed(prev))
    => /\ EndsAtEnd(getAllChunks(buf, 12, <<>>))
       /\ EvenChunks(getAllChunks(buf, 12, <<>>))

\* The entries as encodeTIFFBlock takes them.
EntryInputs(entries) ==
  [i \in 1..Len(entries) |->
     [tag |-> entries[i].tag, type |-> entries[i].type,
      value |-> entries[i].value]]

\* The block is byte for byte what encodeTIFFBlock writes for the entries,
\* tail length and byte order it decodes to: IFD at offset 8, every value at
\* the next word-aligned offset after the one before, zero pad and tail bytes.
AsEncoded(block, tiff) ==
  /\ tiff.tailPadding >= 0
  /\ block = encodeTIFFBlock(EntryInputs(tiff.entries), tiff.tailPadding,
                             tiff.isLittleEndian).val

\* The entry reads "key:value".
Keyed(entry) == entry.ascii # Undefined /\ IndexOf(entry.ascii, Colon) # -1

KeyOf(entry) == Slice(entry.ascii, 0, IndexOf(entry.ascii, Colon))

\* Every "key:value" entry is stored as the UTF-8 of its string and one NUL,
\* under a key that is no inherited name, and one entry is keyed workflow.
PlainEntries(entries) ==
  /\ \A i \in 1..Len(entries) :
       Keyed(entries[i]) =>
         /\ entries[i].value = TextEncode(entries[i].ascii \o <<0>>)
         /\ KeyOf(entries[i]) \notin ObjectPrototypeNames
  /\ Cardinality({i \in 1..Len(entries) :
                    Keyed(entries[i]) /\ KeyOf(entries[i]) = Workflow}) = 1

EncodedBlock(block, tiff) ==
  tiff.ok /\ AsEncoded(block, tiff.val) /\ PlainEntries(tiff.val.entries)

\* The pad byte of the chunk, if it has one, is zero.
ZeroPad(chunk) ==
  (Len(chunk) % 2 = 0 /\ GetU32(chunk, 4, TRUE) % 2 = 1) => chunk[Len(chunk)] = 0

\* An EXIF chunk whose TIFF block is an encoded block.
EncodedExifChunk(chunk) ==
  EncodedBlock(ExifBlock(chunk), decodeTIFFBlock(Whole(ExifBlock(chunk))))

\* The only EXIF chunk of the walk is its last chunk.
ExifLast(walk) ==
  /\ Len(walk.val) >= 1
  /\ \A i \in 1..(Len(walk.val) - 1) : Slice(walk.val[i], 0, 4) # EXIF
  /\ Slice(walk.val[Len(walk.val)], 0, 4) = EXIF

LastChunk(walk) == walk.val[Len(walk.val)]

\* A file whose chunks end at its end, with the RIFF size that goes with its
\* length and one EXIF chunk, the last of the file, its pad byte zero.
ExifAtEnd(webp) ==
  /\ GetU32(webp, 4, TRUE) = Len(webp) - 8
  /\ WellFramed(webp)
  /\ ExifLast(getAllChunks(webp, 12, <<>>))
  /\ ZeroPad(LastChunk(getAllChunks(webp, 12, <<>>)))

\* A file laid out the way setWebpMetadata lays a file out.
EncoderLayout(webp) ==
  ExifAtEnd(webp) /\ EncodedExifChunk(LastChunk(getAllChunks(webp, 12, <<>>)))

\* The last set call handed back the workflow that get returned for its file.
WebpSavedBack ==
  /\ nsets > 0
  /\ YieldsWorkflow(WebpBefore)
  /\ rec = RecordOf(<<<<Workflow, RecGet(WebpBefore.val, Workflow)>>>>)

\* C8 as the specification states it: saving back the workflow just read
\* returns a file that is byte for byte the file read, whatever the layout
\* of its TIFF block; stated for well-framed files with the right RIFF size
\* and the EXIF chunk last, its pad byte zero.
C8_WebpNoOpAnyLayout ==
  (WebpSavedBack /\ ExifAtEnd(prev)) => (outcome = "ok" /\ buf = prev)

\* C8: saving back the workflow just read from a WEBP file that has the
\* encoder's layout (one EXIF chunk, the last of the file, its TIFF block as
\* encodeTIFFBlock writes it, one entry keyed workflow, RIFF size right)
\* returns the same bytes, and the file reads back as that workflow.
C8_WebpNoOp ==
  (WebpSavedBack /\ EncoderLayout(prev)) =>
    /\ outcome = "ok"
    /\ buf = prev
    /\ (op = "get" =>
          YieldsWorkflow(got) /\ RecGet(got.val, Workflow) = RecGet(rec, Workflow))

\* A file with the encoder's layout and an odd-length EXIF payload was saved
\* back and read again.
C8_Witness ==
  /\ WebpSavedBack
  /\ EncoderLayout(prev)
  /\ op = "get"
  /\ buf = prev
  /\ \E i \in 1..Len(prev) :
       /\ Slice(prev, i - 1, i + 3) = EXIF
       /\ GetU32(prev, i + 3, TRUE) % 2 = 1

----------------------------------------------------------------------------
(* What the FLAC properties are stated with.                               *)

\* The offset of the first block header, from offset on, that carries the
\* last-block flag; -1 when the chain leaves the buffer before one is met.
RECURSIVE LastHeader(_, _)
LastHeader(b, offset) ==
  IF ~CanRead(b, offset, 4) THEN -1
  ELSE IF ~CanRead(b, offset + 4, BlockSizeAt(b, offset)) THEN -1
  ELSE IF At(b, offset) >= 128 THEN offset
  ELSE LastHeader(b, offset + 4 + BlockSizeAt(b, offset))

\* The offsets of the Vorbis comment headers of a well-formed chain.
RECURSIVE VorbisHeaders(_, _)
VorbisHeaders(b, offset) ==
  (IF At(b, offset) % 128 = VorbisCommentType THEN {offset} ELSE {})
    \cup (IF At(b, offset) >= 128 THEN {}
          ELSE VorbisHeaders(b, offset + 4 + BlockSizeAt(b, offset)))

\* The signature, then metadata blocks that lie in the buffer, the last of
\* them flagged as the last.
WellFormedChain(b) == Slice(b, 0, 4) = fLaC /\ LastHeader(b, 4) # -1

\* What get returned, or would return, for the file the last set was given.
FlacBefore == getFlacMetadata(prev)

\* C3: reading a FLAC file back after setFlacMetadata(b, r) returned, with
\* r.workflow defined and b a file with a well-formed block chain, yields
\* r.workflow, wherever the Vorbis comment block of b is.
C3_FlacRoundTrip ==
  (ReadBack /\ WellFormedChain(prev)) =>
    (YieldsWorkflow(got) /\ RecGet(got.val, Workflow) = RecGet(rec, Workflow))

\* C7: for a FLAC file with a Vorbis comment block, get after set(b, r)
\* returns the keys of get(b) and of r and no other, each key of r with r's
\* value and every other key with the value get(b) has for it.
C7_FlacMerge ==
  (op = "get" /\ nsets > 0 /\ outcome = "ok" /\ WellFormedChain(prev)
     /\ FlacBefore.ok /\ FlacBefore.val # Null) =>
    /\ got.ok
    /\ got.val # Null
    /\ RecKeySet(got.val) = RecKeySet(FlacBefore.val) \cup RecKeySet(rec)
    /\ \A k \in RecKeySet(rec) : RecGet(got.val, k) = RecGet(rec, k)
    /\ \A k \in RecKeySet(FlacBefore.val) \ RecKeySet(rec) :
         RecGet(got.val, k) = RecGet(FlacBefore.val, k)

\* The payload of a Vorbis comment block is byte for byte what
\* createVorbisComment writes for the vendor string and the comments it
\* parses to: nothing after the last comment, every comment "key=value" in
\* ASCII, the keys distinct and in the order a record lists them.
AsCreated(view, vendor, parsed) ==
  vendor.ok /\ parsed.ok /\ view = createVorbisComment(vendor.val, parsed.val)

CreatedVorbis(view) ==
  /\ CanRead(view, 0, 4)
  /\ AsCreated(view, getString(view, 4, GetU32(view, 0, TRUE)),
               parseVorbisComment(view))

\* The block whose header is at offset, without its header.
BlockData(b, offset) == Slice(b, offset + 4, offset + 4 + BlockSizeAt(b, offset))

\* A file laid out the way setFlacMetadata lays a file out: one Vorbis
\* comment block, the last metadata block and flagged so, its payload as
\* createVorbisComment writes it.
FlacEncoderLayout(b) ==
  /\ WellFormedChain(b)
  /\ VorbisHeaders(b, 4) = {LastHeader(b, 4)}
  /\ CreatedVorbis(BlockData(b, LastHeader(b, 4)))

\* The last set call handed back the workflow that get returned for its file.
FlacSavedBack ==
  /\ nsets > 0
  /\ YieldsWorkflow(FlacBefore)
  /\ rec = RecordOf(<<<<Workflow, RecGet(FlacBefore.val, Workflow)>>>>)

\* C9 as the specification states it: saving back the workflow just read
\* from a FLAC file with a well-formed chain returns the bytes of that file,
\* wherever its Vorbis comment block is and whatever its comments are.
C9_FlacNoOpAnyLayout ==
  (FlacSavedBack /\ WellFormedChain(prev)) => (outcome = "ok" /\ buf = prev)

\* C9: saving back the workflow just read from a FLAC file returns the bytes
\* of that file when its only Vorbis comment block is its last metadata
\* block, flagged as the last, with the payload createVorbisComment writes
\* for its vendor string and comments.
C9_FlacNoOp ==
  (FlacSavedBack /\ FlacEncoderLayout(prev)) => (outcome = "ok" /\ buf = prev)

\* A file with that layout and two comments was saved back.
C9_Witness ==
  /\ FlacSavedBack
  /\ FlacEncoderLayout(prev)
  /\ op = "set"
  /\ buf = prev
  /\ Len(FlacBefore.val) = 2

----------------------------------------------------------------------------
(* What the MP4 properties are stated with.                                *)

\* What get returned, or would return, for the file the last set was given.
Mp4Before == getMp4Metadata(Whole(prev))

\* The file starts with an ftyp box and has a top-level moov box.
ValidMp4(b) == hasFtypBox(b) /\ findBox(b, 0, Len(b), moov).found

\* C2: reading an MP4 file back after setMp4Metadata(b, r) returned, with
\* r.workflow defined and b a file with an ftyp box and a moov box, yields
\* r.workflow as it was handed in, blanks included, whatever other box of b
\* carries a workflow.
C2_Mp4RoundTrip ==
  (ReadBack /\ ValidMp4(prev)) =>
    /\ got.ok
    /\ RecOwns(got.val, Workflow)
    /\ RecGet(got.val, Workflow) = RecGet(rec, Workflow)

\* C6: every key other than workflow that get returns for an MP4 file, from
\* whichever box it was read, is returned with the same value for the file
\* setMp4Metadata(b, {workflow: x}) makes of it.
C6_Mp4FieldPreservation ==
  (ReadBack /\ OnlyWorkflow /\ ValidMp4(prev) /\ Mp4Before.ok) =>
    \A k \in RecKeySet(Mp4Before.val) \ {Workflow} :
      /\ got.ok
      /\ RecOwns(got.val, k)
      /\ RecGet(got.val, k) = RecGet(Mp4Before.val, k)

----------------------------------------------------------------------------
(* What the properties of calls on any buffer are stated with.             *)

\* The test at the head of setWebpMetadata: 'RIFF' at 0..3, 'WEBP' at 8..11.
HasWebpMagic(b) == Slice(b, 0, 4) = RIFF /\ Slice(b, 8, 12) = WEBP

\* The test at the head of setFlacMetadata: 'fLaC' at 0..3.
HasFlacSignature(b) == Slice(b, 0, 4) = fLaC

\* C11: getWebpMetadata never throws: on every buffer, of any length and
\* however cut or malformed, it returns a record, and the record is {} when
\* the buffer is too short to hold the magic or the RIFF/WEBP magic is missing.
C11_WebpGetNeverThrows ==
  op = "getWebpMetadata" =>
    /\ got.ok
    /\ ~HasWebpMagic(buf) => got.val = <<>>

\* C12: getMp4Metadata never throws to the caller: on every buffer it returns
\* a record, and the record is {} when the ftyp check fails (the buffer is
\* shorter than 8 bytes or bytes 4..7 are not 'ftyp') and when a step of the
\* parse raises an error.
C12_Mp4GetNeverThrows ==
  op = "getMp4Metadata" =>
    /\ got.ok
    /\ ~hasFtypBox(buf) => got.val = <<>>
    /\ (hasFtypBox(buf) /\ ~parseBoxes(Whole(buf), 0, Len(buf), <<>>).ok) => got.val = <<>>

\* getMp4Metadata hands no error on to its caller.
Mp4GetThrowsNothing ==
  op \in {"getMp4Metadata", "getMp4Metadata(subarray)"}
    => (got.ok \/ got = Diverges)

\* A 10-byte buffer without the signature of any of the three containers.
TenBytesNoSignature(b) ==
  /\ Len(b) = 10
  /\ Slice(b, 0, 4) \notin {RIFF, fLaC}
  /\ Slice(b, 4, 8) # ftyp

\* C13 as stated: get on a 10-byte buffer without a valid signature throws an
\* invalid-container error for getMp4Metadata and for getFlacMetadata, and
\* only getWebpMetadata returns {}.
C13_TenByteGetThrows ==
  TenBytesNoSignature(buf) =>
    /\ op = "getMp4Metadata" => got = Throw("Not a valid MP4 file")
    /\ op = "getFlacMetadata" => got = Throw("Not a valid FLAC file")
    /\ op = "getWebpMetadata" => got = Ok(<<>>)

\* C13: get on a 10-byte buffer without a valid signature throws
\* "Not a valid FLAC file" for getFlacMetadata, while getMp4Metadata, like
\* getWebpMetadata, returns {} and throws nothing.
C13_TenByteGet ==
  TenBytesNoSignature(buf) =>
    /\ op = "getFlacMetadata" => got = Throw("Not a valid FLAC file")
    /\ op = "getMp4Metadata" => got = Ok(<<>>)
    /\ op = "getWebpMetadata" => got = Ok(<<>>)

\* getMp4Metadata was called on such a buffer and returned {}.
C13_Witness ==
  /\ TenBytesNoSignature(buf)
  /\ op = "getMp4Metadata"
  /\ got = Ok(<<>>)

\* The last call was the set function named name, handed a file for which
\* invalid holds.
SetOnInvalid(name, invalid) == op = name /\ invalid

\* The set call threw the error message and handed no buffer back.
FailedWith(message) == outcome = message /\ buf = prev

\* C14: set fails loudly on an invalid container and returns no buffer:
\* setWebpMetadata throws when bytes 0..3 are not 'RIFF' or bytes 8..11 are
\* not 'WEBP', setFlacMetadata throws when bytes 0..3 are not 'fLaC',
\* setMp4Metadata throws when bytes 4..7 are not 'ftyp' and also when no
\* top-level moov box is found.
C14_SetFailsLoudly ==
  /\ SetOnInvalid("setWebpMetadata", ~HasWebpMagic(prev))
       => FailedWith("Not a valid WEBP file")
  /\ SetOnInvalid("setFlacMetadata", ~HasFlacSignature(prev))
       => FailedWith("Not a valid FLAC file")
  /\ SetOnInvalid("setMp4Metadata", Slice(prev, 4, 8) # ftyp)
       => FailedWith("Not a valid MP4 file")
  /\ SetOnInvalid("setMp4Metadata", Slice(prev, 4, 8) = ftyp
                    /\ ~findBox(prev, 0, Len(prev), moov).found)
       => FailedWith("No 'moov' box found in MP4 file")

\* setMp4Metadata was handed a file with an ftyp box and no moov box and threw.
C14_Witness ==
  /\ op = "setMp4Metadata"
  /\ Slice(prev, 4, 8) = ftyp
  /\ ~findBox(prev, 0, Len(prev), moov).found
  /\ outcome = "No 'moov' box found in MP4 file"

----------------------------------------------------------------------------
(* What the frame properties of setWebpMetadata are stated with.           *)

\* The last call was a set that returned a file.
Returned == op = "set" /\ outcome = "ok"

\* The chunks of a walk that are not EXIF chunks, whole and in order.
RECURSIVE OtherChunks(_)
OtherChunks(chunks) ==
  IF chunks = <<>> THEN <<>>
  ELSE IF Slice(Head(chunks), 0, 4) = EXIF THEN OtherChunks(Tail(chunks))
  ELSE <<Head(chunks)>> \o OtherChunks(Tail(chunks))

\* The first offset at or after from where part lies in b, or -1.
RECURSIVE FirstAt(_, _, _)
FirstAt(b, part, from) ==
  IF from + Len(part) > Len(b) THEN -1
  ELSE IF Slice(b, from, from + Len(part)) = part THEN from
  ELSE FirstAt(b, part, from + 1)

\* b holds the parts one after the other from offset from on, each byte for
\* byte, in their order, with any bytes between them.
RECURSIVE HoldsInOrder(_, _, _)
HoldsInOrder(b, parts, from) ==
  IF parts = <<>> THEN TRUE
  ELSE IF FirstAt(b, Head(parts), from) = -1 THEN FALSE
  ELSE HoldsInOrder(b, Tail(parts), FirstAt(b, Head(parts), from) + Len(Head(parts)))

\* after is before with one whole EXIF chunk put behind its last byte.
ExifAppended(before, after) ==
  /\ Len(after) >= Len(before) + 8
  /\ Slice(after, 12, Len(before)) = SliceFrom(before, 12)
  /\ Slice(after, Len(before), Len(before) + 4) = EXIF
  /\ WholeChunk(SliceFrom(after, Len(before)))

\* The frame of a set that returned out for the well-framed file in, whose
\* chunks are walk.
VerbatimCopy(in, out, walk) ==
  /\ Slice(out, 0, 4) = Slice(in, 0, 4)
  /\ Slice(out, 8, 12) = Slice(in, 8, 12)
  /\ HoldsInOrder(out, OtherChunks(walk), 12)
  /\ OtherChunks(walk) = walk => ExifAppended(in, out)

\* C15: for every well-formed WEBP buffer b and record r, the output of
\* setWebpMetadata(b, r) holds every non-EXIF chunk of b (header, payload and
\* pad byte) byte for byte in the original relative order, bytes 0..3 and
\* 8..11 are unchanged, and when b has no EXIF chunk the new EXIF chunk comes
\* after all original chunks.
C15_WebpVerbatimCopy ==
  (Returned /\ WellFramed(prev)) =>
    VerbatimCopy(prev, buf, getAllChunks(prev, 12, <<>>).val)

----------------------------------------------------------------------------
(* What the frame properties of setMp4Metadata are stated with: the boxes  *)
(* of a file as the format defines them.                                   *)

\* What the walk puts for a box that does not fit.
CutBox == [at |-> -1, head |-> 0, size |-> 0, type |-> <<>>]

\* The length of the header of the box at off: 16 bytes when the size field
\* is 1 and a 64-bit size follows the type, 8 bytes otherwise.
HeadLength(b, off) == IF GetU32(b, off, FALSE) = 1 THEN 16 ELSE 8

\* The length of the box at off in a parent that ends at end: the 64-bit size
\* (its low word) when the size field is 1, the rest of the parent when it is 0.
BoxLength(b, off, end) ==
  IF GetU32(b, off, FALSE) = 1
    THEN (IF CanRead(b, off + 12, 4) THEN GetU32(b, off + 12, FALSE) ELSE 0)
  ELSE IF GetU32(b, off, FALSE) = 0 THEN end - off
  ELSE GetU32(b, off, FALSE)

\* The box at off once its header length and length are known.
RECURSIVE BoxesIn(_, _, _)
BoxWalked(b, off, end, head, size) ==
  IF size < head \/ off + size > end THEN <<CutBox>>
  ELSE <<[at |-> off, head |-> head, size |-> size, type |-> Slice(b, off + 4, off + 8)]>>
         \o BoxesIn(b, off + size, end)

\* The boxes that lie one after the other from off to end.
BoxesIn(b, off, end) ==
  IF off >= end THEN <<>>
  ELSE IF off + 8 > end THEN <<CutBox>>
  ELSE BoxWalked(b, off, end, HeadLength(b, off), BoxLength(b, off, end))

\* The boxes fill their parent exactly.
Tiled(boxes) == \A i \in 1..Len(boxes) : boxes[i] # CutBox

\* The index of the first box of the given type, 0 when there is none.
FirstOfType(boxes, type) ==
  IF \E i \in 1..Len(boxes) : boxes[i].type = type
    THEN CHOOSE i \in 1..Len(boxes) :
           boxes[i].type = type /\ \A j \in 1..(i - 1) : boxes[j].type # type
  ELSE 0

\* The bytes of each box, in order.
BoxBytes(b, boxes) == [i \in 1..Len(boxes) |-> Slice(b, boxes[i].at, boxes[i].at + boxes[i].size)]

\* The children of the box m of b.
ChildrenOf(b, m) == BoxesIn(b, m.at + m.head, m.at + m.size)

\* new is old with the box at index u replaced by a udta box, or with a udta
\* box put after the last one when u is 0.
UdtaReplaced(old, new, u) ==
  IF u = 0
    THEN /\ Len(new) = Len(old) + 1
         /\ SubSeq(new, 1, Len(old)) = old
         /\ Slice(new[Len(new)], 4, 8) = udta
    ELSE /\ Len(new) = Len(old)
         /\ \A i \in 1..Len(old) : i # u => new[i] = old[i]
         /\ Slice(new[u], 4, 8) = udta

\* out is in with the moov box m replaced by the moov box n at the same place,
\* whose children are those of m around the new udta box.
Reassembled(in, out, m, n) ==
  /\ n.type = moov
  /\ Slice(out, 0, m.at) = Slice(in, 0, m.at)
  /\ SliceFrom(out, m.at + n.size) = SliceFrom(in, m.at + m.size)
  /\ Tiled(ChildrenOf(out, n))
  /\ UdtaReplaced(BoxBytes(in, ChildrenOf(in, m)), BoxBytes(out, ChildrenOf(out, n)),
                  FirstOfType(ChildrenOf(in, m), udta))

\* The file is a row of whole boxes, ftyp first, with a moov box whose
\* children are whole boxes.
WellFormedMp4(b, top) ==
  /\ Tiled(top)
  /\ Len(top) > 0
  /\ top[1].type = ftyp
  /\ FirstOfType(top, moov) # 0
  /\ Tiled(ChildrenOf(b, top[FirstOfType(top, moov)]))

\* The frame of a set that returned out for the file in, whose boxes are top.
Mp4Frame(in, out, top) ==
  /\ Len(out) >= top[FirstOfType(top, moov)].at + 8
  /\ Reassembled(in, out, top[FirstOfType(top, moov)],
                 BoxesIn(out, top[FirstOfType(top, moov)].at, Len(out))[1])

\* C16: for every valid MP4 buffer b, setMp4Metadata(b, r) is the bytes of b
\* before moov, the new moov, and the bytes of b after moov; inside the new
\* moov every child box of the original moov other than the replaced udta is
\* there byte for byte in its original order, with the new udta where the old
\* one was, or last when moov had no udta.
C16_Mp4Reassembly ==
  (Returned /\ WellFormedMp4(prev, BoxesIn(prev, 0, Len(prev)))) =>
    Mp4Frame(prev, buf, BoxesIn(prev, 0, Len(prev)))

----------------------------------------------------------------------------
(* What the frame property of setFlacMetadata is stated with.              *)

\* The metadata blocks of a well-formed chain that are not Vorbis comment
\* blocks, header and payload, one after the other from offset on.
RECURSIVE OtherBlocks(_, _)
OtherBlocks(b, offset) ==
  (IF At(b, offset) % 128 = VorbisCommentType THEN <<>>
   ELSE Slice(b, offset, offset + 4 + BlockSizeAt(b, offset)))
    \o (IF At(b, offset) >= 128 THEN <<>>
        ELSE OtherBlocks(b, offset + 4 + BlockSizeAt(b, offset)))

\* The bytes that follow the last metadata block of a well-formed chain.
AudioFrames(b) == SliceFrom(b, LastHeader(b, 4) + 4 + BlockSizeAt(b, LastHeader(b, 4)))

\* out is kept, then one whole Vorbis comment block, then audio.
FlacCopy(out, kept, audio) ==
  /\ Slice(out, 0, Len(kept)) = kept
  /\ CanRead(out, Len(kept), 4)
  /\ At(out, Len(kept)) % 128 = VorbisCommentType
  /\ CanRead(out, Len(kept) + 4, BlockSizeAt(out, Len(kept)))
  /\ SliceFrom(out, Len(kept) + 4 + BlockSizeAt(out, Len(kept))) = audio

\* C17: for every valid FLAC buffer b, the output of setFlacMetadata(b, r) is
\* the 4-byte signature, then every metadata block of b that is not a Vorbis
\* comment block (header and payload) byte for byte in the original order,
\* then one Vorbis comment block, then every byte of b that follows its last
\* metadata block, unchanged.
C17_FlacVerbatimCopy ==
  (Returned /\ WellFormedChain(prev)) =>
    FlacCopy(buf, fLaC \o OtherBlocks(prev, 4), AudioFrames(prev))

\* A set returned for a file with a block after its Vorbis comment block and
\* audio frames behind the chain.
C17_Witness ==
  /\ Returned
  /\ WellFormedChain(prev)
  /\ VorbisHeaders(prev, 4) # {}
  /\ LastHeader(prev, 4) \notin VorbisHeaders(prev, 4)
  /\ AudioFrames(prev) # <<>>

----------------------------------------------------------------------------
(* What the size properties of setWebpMetadata are stated with.            *)

\* The offset of the first EXIF chunk met by the chunk walk from offset on,
\* -1 when the walk ends or leaves the buffer before one is met.
RECURSIVE FirstExif(_, _)
FirstExif(webp, offset) ==
  IF ~CanRead(webp, offset, 8) THEN -1
  ELSE IF Slice(webp, offset, offset + 4) = EXIF THEN offset
  ELSE FirstExif(webp, offset + 8 + GetU32(webp, offset + 4, TRUE)
                         + (GetU32(webp, offset + 4, TRUE) % 2))

\* The TIFF block of the EXIF chunk at offset o, as its length field bounds it.
TiffOf(webp, o) ==
  decodeTIFFBlock(Whole(Slice(webp, o + 8 + ExifHeaderLength(webp, o + 8),
                              o + 8 + GetU32(webp, o + 4, TRUE))))

\* The bytes that the encoder is told to leave behind the values of the block
\* it writes: those of the block of the input, none when the input has no
\* EXIF chunk.
TailOf(webp, o) == IF o = -1 THEN 0 ELSE TiffOf(webp, o).val.tailPadding

\* Where the EXIF chunk at offset o ends, its pad byte included.
ChunkEnd(webp, o) == o + 8 + GetU32(webp, o + 4, TRUE) + (GetU32(webp, o + 4, TRUE) % 2)

\* The length field of the EXIF chunk at o of out is the length of the payload
\* written: the marker, if any, and a TIFF block that ends with as many tail
\* bytes as the encoder was told to write; the chunk ends, pad byte included,
\* where the bytes copied after it begin.
ExifSized(in, out, o, end) ==
  /\ end <= Len(out)
  /\ Len(out) - end <= Len(in)
  /\ SliceFrom(out, end) = SliceFrom(in, Len(in) - (Len(out) - end))
  /\ TiffOf(out, o).ok
  /\ TiffOf(out, o).val.tailPadding = TailOf(in, FirstExif(in, 12))

\* The size fields of the file out returned for the file in.
WebpSizes(in, out, o) ==
  /\ GetU32(out, 4, TRUE) = Len(out) - 8
  /\ o # -1 => ExifSized(in, out, o, ChunkEnd(out, o))

\* C18: in every buffer returned by setWebpMetadata the little-endian 32-bit
\* RIFF size at offset 4 is the length of the output minus 8, and the length
\* field of the EXIF chunk is the byte length of its payload, the optional
\* 'Exif\0\0' marker and the TIFF block, the pad byte not counted.
C18_WebpSizeFields ==
  Returned => WebpSizes(prev, buf, FirstExif(buf, 12))

\* A set returned a file whose EXIF payload has an odd length, so that a pad
\* byte follows it, for a file whose RIFF size field was not its length minus 8.
C18_Witness ==
  /\ Returned
  /\ GetU32(prev, 4, TRUE) # Len(prev) - 8
  /\ FirstExif(buf, 12) # -1
  /\ GetU32(buf, FirstExif(buf, 12) + 4, TRUE) % 2 = 1

----------------------------------------------------------------------------
(* What the size properties of setMp4Metadata are stated with.             *)

\* The boxes from off to end, each with an 8-byte header whose size field is
\* the length of the box, fill that range exactly.
ExactBoxes(b, off, end) ==
  /\ Tiled(BoxesIn(b, off, end))
  /\ \A i \in 1..Len(BoxesIn(b, off, end)) :
       GetU32(b, BoxesIn(b, off, end)[i].at, FALSE) = BoxesIn(b, off, end)[i].size

\* The offsets of the boxes of the given type from off to end.
BoxesOfType(b, off, end, type) ==
  {BoxesIn(b, off, end)[i].at : i \in {j \in 1..Len(BoxesIn(b, off, end)) : BoxesIn(b, off, end)[j].type = type}}

\* Where the box at offset at ends, by its size field.
EndOf(b, at) == at + GetU32(b, at, FALSE)

\* An ilst item at t: one data box, 16 bytes of head and the value, fills it.
ItemSized(b, t) ==
  /\ ExactBoxes(b, t + 8, EndOf(b, t))
  /\ Len(BoxesIn(b, t + 8, EndOf(b, t))) = 1
  /\ BoxesIn(b, t + 8, EndOf(b, t))[1].type = data
  /\ BoxesIn(b, t + 8, EndOf(b, t))[1].size >= 16

\* A keys box at k: the entries behind version, flags and count fill it, and
\* there are as many as the count says.
KeysSized(b, k) ==
  /\ ExactBoxes(b, k + 16, EndOf(b, k))
  /\ Len(BoxesIn(b, k + 16, EndOf(b, k))) = GetU32(b, k + 12, FALSE)

\* An ilst box at i: whole items fill it.
IlstSized(b, i) ==
  /\ ExactBoxes(b, i + 8, EndOf(b, i))
  /\ \A n \in 1..Len(BoxesIn(b, i + 8, EndOf(b, i))) :
       ItemSized(b, BoxesIn(b, i + 8, EndOf(b, i))[n].at)

\* A meta box at q: hdlr, keys and ilst behind version and flags fill it.
MetaSized(b, q) ==
  /\ ExactBoxes(b, q + 12, EndOf(b, q))
  /\ [n \in 1..Len(BoxesIn(b, q + 12, EndOf(b, q))) |-> BoxesIn(b, q + 12, EndOf(b, q))[n].type]
       = <<hdlr, keys, ilst>>
  /\ \A k \in BoxesOfType(b, q + 12, EndOf(b, q), keys) : KeysSized(b, k)
  /\ \A i \in BoxesOfType(b, q + 12, EndOf(b, q), ilst) : IlstSized(b, i)

\* A udta box at p: wflo and meta boxes fill it.
UdtaSized(b, p) ==
  /\ Slice(b, p + 4, p + 8) = udta
  /\ ExactBoxes(b, p + 8, EndOf(b, p))
  /\ \A n \in 1..Len(BoxesIn(b, p + 8, EndOf(b, p))) :
       BoxesIn(b, p + 8, EndOf(b, p))[n].type \in {wflo, meta}
  /\ \A q \in BoxesOfType(b, p + 8, EndOf(b, p), meta) : MetaSized(b, q)

\* The sizes of the file out returned for the file in, whose moov box was
\* found as m and whose udta box in it was looked for as u: what the file
\* grew by is what the moov box and the udta box grew by.
Mp4Sizes(in, out, m, u) ==
  /\ Slice(out, m.offset + 4, m.offset + 8) = moov
  /\ GetU32(out, m.offset, FALSE) = m.size + Len(out) - Len(in)
  /\ UdtaSized(out, m.offset + (IF u.found THEN u.offset ELSE m.size))
  /\ GetU32(out, m.offset + (IF u.found THEN u.offset ELSE m.size), FALSE)
       = (IF u.found THEN u.size ELSE 0) + Len(out) - Len(in)

\* The udta box looked for in the moov box found as m.
UdtaIn(in, m) ==
  findBox(Slice(in, m.offset, m.offset + m.size), 8, m.size, udta)

\* C19: in every buffer returned by setMp4Metadata the size field of the moov
\* box is the byte length of the moov box written, whether the header of the
\* original moov had a 32-bit size, size 0 or size 1 with a 64-bit size, and
\* the size fields of the rebuilt udta, wflo, meta, hdlr, keys, each key entry,
\* ilst, each item and each data box are their serialized byte lengths.
C19_Mp4SizeFields ==
  Returned =>
    Mp4Sizes(prev, buf, findBox(prev, 0, Len(prev), moov),
             UdtaIn(prev, findBox(prev, 0, Len(prev), moov)))

\* A set handed two keys returned for a file whose moov header states size 1
\* and a 64-bit size.
C19_Witness ==
  /\ Returned
  /\ Len(rec) = 2
  /\ GetU32(prev, findBox(prev, 0, Len(prev), moov).offset, FALSE) = 1

----------------------------------------------------------------------------
(* What the purity of the set functions is stated with.                    *)

\* The last call was one of the three set functions.
SetCalled == op \in {"setWebpMetadata", "setMp4Metadata", "setFlacMetadata"}

\* C20: set is pure with respect to its arguments: after a call of
\* setWebpMetadata, setMp4Metadata or setFlacMetadata the record handed in
\* holds the same keys and values as before the call, so that a second set
\* call handed the same record object writes the same fields. (The input
\* buffer is a value here: no step of the three functions writes into it.)
C20_SetIsPure ==
  SetCalled => recAfter = rec

\* setMp4Metadata and setFlacMetadata leave the record as it was.
Mp4FlacSetKeepRecord ==
  op \in {"setMp4Metadata", "setFlacMetadata"} => recAfter = rec

----------------------------------------------------------------------------
(* What the last-block flag of setFlacMetadata is stated with.             *)

\* The first flagged block of out is the Vorbis comment block written behind
\* the kept blocks: no block before it carries the flag.
VorbisIsLast(out, kept) ==
  /\ LastHeader(out, 4) = Len(kept)
  /\ At(out, Len(kept)) = 128 + VorbisCommentType

\* C21: in every buffer returned by setFlacMetadata the new Vorbis comment
\* block is the last metadata block of the chain and the only one whose
\* last-block flag is set, so that a walker that stops at the first flagged
\* block reaches it; also when the last metadata block of the input is not a
\* Vorbis comment block.
C21_FlacLastBlockFlag ==
  (Returned /\ WellFormedChain(prev)) =>
    VorbisIsLast(buf, fLaC \o OtherBlocks(prev, 4))

----------------------------------------------------------------------------
(* What the termination of the MP4 codec is stated with.                   *)

\* The last call was getMp4Metadata or setMp4Metadata and it came to an end:
\* it returned or it threw.
Mp4CallEnded ==
  /\ op = "getMp4Metadata" => got # Diverges
  /\ op = "setMp4Metadata" => outcome # Diverges.err

\* C22: getMp4Metadata and setMp4Metadata terminate, by returning or by
\* throwing, on every finite input buffer, also when a box, a child of udta
\* or of meta, a keys entry or an ilst item states size 0 or a size smaller
\* than its 8-byte header.
C22_Mp4Terminates == Mp4CallEnded

----------------------------------------------------------------------------
(* The rewrite rule of setWebpMetadata, stated on the entries of the first *)
(* EXIF chunk of the input and of the output.                              *)

\* The tag, type and value bytes of the decoded entries.
Triples(entries) ==
  [i \in 1..Len(entries) |->
     [tag |-> entries[i].tag, type |-> entries[i].type, value |-> entries[i].value]]

\* The string of a type-2 entry: its value bytes without the final byte.
EntryText(e) == TextDecode(Slice(e.value, 0, -1))

\* e is an ASCII entry "key:value".
IsKeyed(e) == e.type = TypeAscii /\ IndexOf(EntryText(e), Colon) # -1

\* The key of such an entry: the text before its first colon.
EntryKey(e) == Slice(EntryText(e), 0, IndexOf(EntryText(e), Colon))

\* The bytes of the entry "<key>:<value>\0".
KeyedBytes(key, value) == TextEncode(key \o <<Colon>> \o value \o <<0>>)

\* What the rule makes of the existing entry e under the record r.
RuleEntry(e, r) ==
  [tag |-> e.tag, type |-> e.type,
   value |-> IF IsKeyed(e) /\ RecOwns(r, EntryKey(e))
               THEN KeyedBytes(EntryKey(e), RecGet(r, EntryKey(e)))
               ELSE e.value]

\* The pairs of r whose key matched no existing entry, in the order of r.
Unmatched(entries, r) ==
  SelectSeq(r, LAMBDA p : \A i \in 1..Len(entries) :
                            ~(IsKeyed(entries[i]) /\ EntryKey(entries[i]) = p[1]))

\* The entries the rule appends for the unmatched pairs.
RuleAppended(pairs) ==
  [i \in 1..Len(pairs) |->
     [tag |-> EXIF_TAGS_Make - (i - 1), type |-> TypeAscii,
      value |-> KeyedBytes(pairs[i][1], pairs[i][2])]]

\* The entry list the rule gives for the existing entries under the record r.
RuleEntries(entries, r) ==
  [i \in 1..Len(entries) |-> RuleEntry(entries[i], r)]
    \o RuleAppended(Unmatched(entries, r))

\* The input has an EXIF chunk at o whose TIFF block decodes.
HasExif(webp, o) == o # -1 /\ TiffOf(webp, o).ok

\* C23: WEBP set rewrite rule.  When the input has an EXIF chunk, the IFD
\* written holds the existing entries with their tag, type and position, an
\* ASCII entry "key:value" whose key is in the record carrying the record's
\* value and every other entry its old value bytes, followed by one type-2
\* entry "<key>:<value>\0" per key that matched no entry, the i-th with tag
\* 0x010F - i; the entry string is split at its first colon.
C23_WebpRewriteRule ==
  (Returned /\ HasExif(prev, FirstExif(prev, 12))) =>
    /\ HasExif(buf, FirstExif(buf, 12))
    /\ Triples(TiffOf(buf, FirstExif(buf, 12)).val.entries)
         = RuleEntries(TiffOf(prev, FirstExif(prev, 12)).val.entries, rec)

----------------------------------------------------------------------------
(* The TIFF engine called on its own: a list of entries is encoded, the    *)
(* block is decoded, and what was decoded is encoded again with the tail   *)
(* padding and byte order that were read, as setWebpMetadata does.         *)

\* Longest entry list handed to encodeTIFFBlock.
MaxEntries == 2

\* Largest tailPadding handed to encodeTIFFBlock.
MaxTail == 2

\* An undefined value of odd length, and an ASCII value with a NUL inside.
EOdd == [tag |-> 37510, type |-> 7, value |-> <<1, 2, 3>>]
ENul == [tag |-> 270, type |-> 2, value |-> <<97, 0, 98, 0>>]

TiffEntryKinds == {EWorkflow(W0), EPrompt(<<112>>), EOdd, ENul}

TiffEntryLists == UNION {[1..n -> TiffEntryKinds] : n \in 0..MaxEntries}

\* Blocks that encodeTIFFBlock did not write.
TiffBlocks ==
  [\* values packed: the second value is stored one byte before the
   \* predicted offset
   packed   |-> Tiff(TRUE, <<>>, <<EPrompt(<<112>>), EWorkflow(W0)>>, FALSE, <<>>),
   \* the stored offset of the second value is two bytes too low: the value
   \* read there has a NUL inside
   shifted  |-> RawTiff(TRUE, <<>>, <<<<272, 2, 10, 38>>, <<271, 2, 12, 46>>>>,
                        Asc(Prompt, P0) \o Asc(Workflow, W0)),
   \* the stored offset lies behind the end of the block
   outside  |-> RawTiff(FALSE, <<>>, <<<<271, 2, 12, 200>>>>, Asc(Workflow, W0)),
   \* the IFD two bytes further than the header, bytes after the last value
   ifdAt10  |-> Tiff(TRUE, <<0, 0>>, <<EWorkflow(W0)>>, TRUE, <<7>>),
   \* the entry table is cut
   cutTable |-> Slice(Tiff(TRUE, <<>>, <<EWorkflow(W0)>>, TRUE, <<>>), 0, 20),
   \* the values are cut: the block ends before the predicted end
   cutValue |-> Slice(Tiff(TRUE, <<>>, <<EWorkflow(W0)>>, TRUE, <<>>), 0, 30)]

\* Blocks that are a part of a larger buffer (subarray).
TiffViews ==
  [\* four other bytes lie before the block
   lead   |-> ViewOf(<<9, 9, 9, 9>> \o TiffBlocks.packed, 4, Len(TiffBlocks.packed)),
   \* another block lies before the block
   behind |-> ViewOf(TiffBlocks.packed \o TiffBlocks.shifted,
                     Len(TiffBlocks.packed), Len(TiffBlocks.shifted)),
   \* the block is the first 20 bytes of a buffer that holds the whole table
   \* and the value
   front  |-> ViewOf(Tiff(TRUE, <<>>, <<EWorkflow(W0)>>, TRUE, <<>>), 0, 20)]

\* The state after encodeTIFFBlock(entries, { tailPadding, isLittleEndian })
\* ended as res.
AfterEncode(entries, tailPadding, isLittleEndian, res) ==
  /\ tiffArgs' = [entries |-> entries, tailPadding |-> tailPadding,
                  isLittleEndian |-> isLittleEndian]
  /\ tiffData' = IF res.ok THEN Whole(res.val) ELSE tiffData
  /\ decoded' = NoGet
  /\ tiffOp' = IF res.ok THEN "encode" ELSE res.err
  /\ UNCHANGED <<buf, prev, rec, recAfter, outcome, got, op, nsets, written>>

TiffEncode ==
  /\ tiffOp = "init"
  /\ tiffArgs # NoArgs
  /\ AfterEncode(tiffArgs.entries, tiffArgs.tailPadding, tiffArgs.isLittleEndian,
                 encodeTIFFBlock(tiffArgs.entries, tiffArgs.tailPadding,
                                 tiffArgs.isLittleEndian))

TiffDecode ==
  /\ tiffOp = "encode" \/ (tiffOp = "init" /\ tiffArgs = NoArgs)
  /\ decoded' = decodeTIFFBlock(tiffData)
  /\ tiffOp' = "decode"
  /\ UNCHANGED <<tiffArgs, tiffData>>
  /\ UNCHANGED <<buf, prev, rec, recAfter, outcome, got, op, nsets, written>>

\* What setWebpMetadata does with a decoded block when no key is handed in:
\* every ASCII entry "key:value" is written again from its string, every
\* other entry as it is, with the tail padding and byte order that were read.
ReencodeEntries(rw) == rw.entries \o NewEntries(rw.modifyRecords)

TiffReencode ==
  /\ tiffOp = "decode"
  /\ decoded.ok
  /\ LET entries == ReencodeEntries(RewriteEntries(decoded.val.entries, 1, <<>>, <<>>))
     IN  AfterEncode(entries, decoded.val.tailPadding, decoded.val.isLittleEndian,
                     encodeTIFFBlock(entries, decoded.val.tailPadding,
                                     decoded.val.isLittleEndian))

InitTiff ==
  /\ \/ /\ tiffArgs \in [entries : TiffEntryLists, tailPadding : 0..MaxTail,
                         isLittleEndian : BOOLEAN]
        /\ tiffData = Whole(<<>>)
     \/ /\ tiffArgs = NoArgs
        /\ tiffData \in {Whole(TiffBlocks[n]) : n \in DOMAIN TiffBlocks}
                          \cup {TiffViews[n] : n \in DOMAIN TiffViews}
  /\ decoded = NoGet
  /\ tiffOp = "init"
  /\ buf = <<>>
  /\ prev = <<>>
  /\ rec = NoRecord
  /\ recAfter = NoRecord
  /\ outcome = "none"
  /\ got = NoGet
  /\ op = "init"
  /\ nsets = 0
  /\ written = {}

NextTiff ==
  \/ TiffEncode
  \/ TiffDecode
  \/ TiffReencode

SpecTiff == InitTiff /\ [][NextTiff]_vars

----------------------------------------------------------------------------
(* Properties of the TIFF engine.                                          *)

\* decodeTIFFBlock has just been called on a block that encodeTIFFBlock wrote.
DecodedEncoded == tiffOp = "decode" /\ tiffArgs # NoArgs

\* What was decoded is what a was encoded from, every value found at the
\* offset predicted for it.
SameAsEncoded(d, a) ==
  /\ d.isLittleEndian = a.isLittleEndian
  /\ d.ifdOffset = 8
  /\ d.numEntries = Len(a.entries)
  /\ Triples(d.entries) = a.entries
  /\ \A i \in 1..Len(d.entries) : d.entries[i].offset = d.entries[i].predictOffset
  /\ d.tailPadding = a.tailPadding

\* C24: TIFF engine round trip.  For every list of entries (16-bit tag and
\* type, value bytes), every tailPadding p >= 0 and either byte order,
\* decodeTIFFBlock(encodeTIFFBlock(entries, {tailPadding: p, isLittleEndian}))
\* returns the same byte order, ifdOffset 8, the same entries (tag, type and
\* value bytes) in the same order, a stored offset equal to the predicted
\* offset for every entry, and tailPadding p.
C24_TiffRoundTrip ==
  DecodedEncoded => (decoded.ok /\ SameAsEncoded(decoded.val, tiffArgs))

\* A big-endian block of two entries, the first of odd length, and two tail
\* bytes has been encoded and decoded.
C24_Witness ==
  /\ DecodedEncoded
  /\ decoded.ok
  /\ Len(tiffArgs.entries) = 2
  /\ Len(tiffArgs.entries[1].value) % 2 = 1
  /\ tiffArgs.tailPadding = 2
  /\ ~tiffArgs.isLittleEndian

\* Where the i-th value of the list ends when the values follow the entry
\* table in entry order, each one starting at the next even offset; i = 0
\* gives the end of the table and of the next-IFD field.
RECURSIVE LaidEnd(_, _)
LaidEnd(entries, i) ==
  IF i = 0 THEN 8 + 2 + Len(entries) * 12 + 4
  ELSE LET before == LaidEnd(entries, i - 1)
       IN  before + (before % 2) + Len(entries[i].value)

LaidStart(entries, i) == LaidEnd(entries, i) - Len(entries[i].value)

\* The i-th entry of the table of b and its value are laid out as above.
EntryLaid(b, entries, i, isLE) ==
  /\ GetU16(b, 10 + (i - 1) * 12, isLE) = entries[i].tag
  /\ GetU16(b, 10 + (i - 1) * 12 + 2, isLE) = entries[i].type
  /\ GetU32(b, 10 + (i - 1) * 12 + 4, isLE) = Len(entries[i].value)
  /\ GetU32(b, 10 + (i - 1) * 12 + 8, isLE) = LaidStart(entries, i)
  /\ LaidStart(entries, i) % 2 = 0
  /\ Slice(b, LaidStart(entries, i), LaidEnd(entries, i)) = entries[i].value
  /\ Slice(b, LaidEnd(entries, i - 1), LaidStart(entries, i))
       = Zeros(LaidEnd(entries, i - 1) % 2)

\* The layout of a block b written for the arguments a.
TiffLayout(b, a) ==
  /\ Slice(b, 0, 2) = (IF a.isLittleEndian THEN II ELSE MM)
  /\ GetU16(b, 2, a.isLittleEndian) = 42
  /\ GetU32(b, 4, a.isLittleEndian) = 8
  /\ GetU16(b, 8, a.isLittleEndian) = Len(a.entries)
  /\ \A i \in 1..Len(a.entries) : EntryLaid(b, a.entries, i, a.isLittleEndian)
  /\ GetU32(b, 10 + Len(a.entries) * 12, a.isLittleEndian) = 0
  /\ Len(b) = LaidEnd(a.entries, Len(a.entries)) + a.tailPadding
  /\ SliceFrom(b, LaidEnd(a.entries, Len(a.entries))) = Zeros(a.tailPadding)

\* C25: TIFF encode layout.  In every block encodeTIFFBlock writes for n
\* entries the header is at bytes 0..7 with IFD offset 8, the entry table
\* follows with entry count n, each count field is the byte length of the
\* value, every value offset is even, the values lie in entry order without
\* overlap with one zero byte before a value that would start at an odd
\* offset and none elsewhere, the next-IFD field is 0, and the block ends
\* with exactly tailPadding zero bytes.
C25_TiffEncodeLayout ==
  tiffOp = "encode" => TiffLayout(Seen(tiffData), tiffArgs)

\* A block of two entries has been written in which a pad byte precedes the
\* second value, with tail bytes behind it.
C25_Witness ==
  /\ tiffOp = "encode"
  /\ Len(tiffArgs.entries) = 2
  /\ LaidEnd(tiffArgs.entries, 1) % 2 = 1
  /\ tiffArgs.tailPadding > 0

\* The header, the entry count and the whole entry table of b can be read.
TableReadable(b, isLE) ==
  /\ CanRead(b, 4, 4)
  /\ CanRead(b, GetU32(b, 4, isLE), 2)
  /\ CanRead(b, GetU32(b, 4, isLE) + 2, 12 * GetU16(b, GetU32(b, 4, isLE), isLE))

\* The string of a decoded entry; an empty string is left out of the entry.
StringOf(e) == IF e.ascii = Undefined THEN <<>> ELSE e.ascii

\* The bytes of b at offset, count of them, without the last, as text.
TextAt(b, offset, count) == TextDecode(Slice(Slice(b, offset, offset + count), 0, -1))

\* The string the rule gives for the type-2 entry e of b.
RuleString(b, e) ==
  IF 0 \notin Range(TextAt(b, e.offset, e.count))
    THEN TextAt(b, e.offset, e.count)
    ELSE TextAt(b, e.predictOffset, e.count)

\* The condition under which decodeTIFFBlock warns about the entry e.
Warned(e) == e.offset # e.predictOffset

\* The rule for the block: decodeTIFFBlock returns; it returns the entries of
\* the table of the block, each with the offset stored for it, and the string
\* of every type-2 entry is the one the rule gives.
AsciiRule(block, isLE) ==
  /\ decoded.ok
  /\ Len(decoded.val.entries) = GetU16(block, GetU32(block, 4, isLE), isLE)
  /\ \A i \in 1..Len(decoded.val.entries) :
       /\ decoded.val.entries[i].offset
            = GetU32(block, GetU32(block, 4, isLE) + 2 + (i - 1) * 12 + 8, isLE)
       /\ decoded.val.entries[i].type = TypeAscii =>
            StringOf(decoded.val.entries[i])
              = RuleString(block, decoded.val.entries[i])

\* The block is the whole of its buffer.
OwnsBuffer(v) == v = Whole(v.buffer)

\* C26: TIFF ASCII decode with offset mismatch.  For a type-2 entry the string
\* decodeTIFFBlock returns is the value read at the offset stored in the block
\* without its final byte when that text holds no NUL, and the value read at
\* the predicted offset without its final byte when it does; decodeTIFFBlock
\* returns whenever the entry table of the block can be read, wherever the
\* stored offsets point.
C26_TiffAsciiDecode ==
  (tiffOp = "decode"
     /\ TableReadable(Seen(tiffData), Slice(Seen(tiffData), 0, 2) = II))
    => AsciiRule(Seen(tiffData), Slice(Seen(tiffData), 0, 2) = II)

\* The same rule for the blocks that are the whole of their buffer.
TiffAsciiDecodeOwnBuffer ==
  OwnsBuffer(tiffData) => C26_TiffAsciiDecode

\* A block that is the whole of its buffer has been decoded in which a type-2
\* entry's stored offset differs from the predicted one and the text at the
\* stored offset holds a NUL, so that the string comes from the predicted
\* offset.
FallbackDecoded ==
  /\ tiffOp = "decode"
  /\ OwnsBuffer(tiffData)
  /\ decoded.ok
  /\ \E i \in 1..Len(decoded.val.entries) :
       /\ decoded.val.entries[i].type = TypeAscii
       /\ Warned(decoded.val.entries[i])
       /\ 0 \in Range(TextAt(Seen(tiffData), decoded.val.entries[i].offset,
                             decoded.val.entries[i].count))
       /\ decoded.val.entries[i].ascii = Workflow \o <<Colon>> \o W0

----------------------------------------------------------------------------
(* Key resolution in the meta box of an MP4 file.                          *)

\* The bytes of the first box of the given type among boxes, <<>> if none.
FirstBytes(b, boxes, type) ==
  IF FirstOfType(boxes, type) = 0 THEN <<>>
  ELSE BoxBytes(b, boxes)[FirstOfType(boxes, type)]

\* The meta box of the udta box of the moov box of the file b, <<>> if none.
UdtaBytes(b) == FirstBytes(FirstBytes(b, BoxesIn(b, 0, Len(b)), moov),
                           BoxesIn(FirstBytes(b, BoxesIn(b, 0, Len(b)), moov), 8,
                                   Len(FirstBytes(b, BoxesIn(b, 0, Len(b)), moov))),
                           udta)

MetaBytes(b) == FirstBytes(UdtaBytes(b), BoxesIn(UdtaBytes(b), 8, Len(UdtaBytes(b))), meta)

\* What getMp4Metadata reads from the meta box m, and what the extraction of
\* setMp4Metadata reads from it.
GetReads(m) == parseMetaBox(Whole(m), 12, Len(m), <<>>)
SetReads(m) == MoovMeta(m)

\* The two readings end alike: with the same pairs, or both without a result.
SameReading(g, s) == IF g.ok /\ s.ok THEN Range(g.val) = Range(s.val) ELSE g.ok = s.ok

\* The box of the given type among the children of the meta box m, CutBox
\* when there is none.
MetaChild(m, type) ==
  IF FirstOfType(BoxesIn(m, 12, Len(m)), type) = 0 THEN CutBox
  ELSE BoxesIn(m, 12, Len(m))[FirstOfType(BoxesIn(m, 12, Len(m)), type)]

\* The name of a key entry: the text after its size and namespace.
KeyName(m, entry) ==
  IF entry = CutBox THEN <<>> ELSE Text(m, entry.at + 8, entry.at + entry.size)

\* The names of the entries of the keys box k of m, in order.
KeyNames(m, k) ==
  IF k = CutBox THEN <<>>
  ELSE [n \in 1..Len(BoxesIn(m, k.at + 16, k.at + k.size)) |->
          KeyName(m, BoxesIn(m, k.at + 16, k.at + k.size)[n])]

\* An item yields no value.
NoValue == <<-2>>

\* The text of an item: that of its data sub-box when the sub-box states
\* dataType 1.
ItemValue(m, item) ==
  IF item = CutBox \/ item.size < 24 THEN NoValue
  ELSE IF BoxType(m, item.at + 8) # data \/ GetU32(m, item.at + 16, FALSE) # 1
    THEN NoValue
  ELSE Text(m, item.at + 24, item.at + 8 + GetU32(m, item.at + 8, FALSE))

\* The values of the items of the ilst box i of m, in order, every item counted.
ItemValues(m, i) ==
  IF i = CutBox THEN <<>>
  ELSE [n \in 1..Len(BoxesIn(m, i.at + 8, i.at + i.size)) |->
          ItemValue(m, BoxesIn(m, i.at + 8, i.at + i.size)[n])]

\* The n-th name with the n-th value, for the items that yield one.
Labelled(names, values) ==
  {<<names[n], values[n]>> :
     n \in {j \in 1..Min(Len(names), Len(values)) :
              values[j] # NoValue /\ names[j] # <<>>}}

\* The fields the positional rule gives for the meta box m.
RulePairs(m) == Labelled(KeyNames(m, MetaChild(m, keys)), ItemValues(m, MetaChild(m, ilst)))

\* The meta box of b is all that b holds of metadata: udta holds nothing
\* else, and no uuid, udta or meta box lies outside moov.
OnlySource(b) ==
  /\ MetaBytes(b) # <<>>
  /\ Len(BoxesIn(UdtaBytes(b), 8, Len(UdtaBytes(b)))) = 1
  /\ \A i \in 1..Len(BoxesIn(b, 0, Len(b))) :
       BoxesIn(b, 0, Len(b))[i].type \in {ftyp, moov, <<109, 100, 97, 116>>}

\* Both readings of the meta box m give the fields of the positional rule.
ReadByRule(m) ==
  /\ GetReads(m).ok
  /\ Range(GetReads(m).val) = RulePairs(m)
  /\ SameReading(GetReads(m), SetReads(m))

\* C27: MP4 positional key resolution.  Within a meta box getMp4Metadata
\* labels the n-th ilst item, every item counted, with the name of the n-th
\* entry of the keys box; only items whose data sub-box has dataType 1 yield a
\* field; the keys box may come before or after the ilst box; and the
\* extraction setMp4Metadata performs on the meta box yields the same pairs.
C27_Mp4KeyResolution ==
  /\ (op \in {"get", "set", "getMp4Metadata", "setMp4Metadata"}
        /\ MetaBytes(buf) # <<>>) => ReadByRule(MetaBytes(buf))
  /\ (op \in {"get", "getMp4Metadata"} /\ OnlySource(buf)) =>
       (got.ok /\ Range(got.val) = RulePairs(MetaBytes(buf)))

----------------------------------------------------------------------------
(* The comments of a Vorbis comment block that setFlacMetadata rewrites.   *)

\* The keys of the comments that lie whole in the payload view, from the
\* i-th comment (counted from 0) at offset on.
RECURSIVE KeysFrom(_, _, _, _)
KeysFrom(view, offset, i, count) ==
  IF i >= count \/ ~CanRead(view, offset, 4) THEN {}
  ELSE IF ~CanRead(view, offset + 4, GetU32(view, offset, TRUE)) THEN {}
  ELSE LET comment == Slice(view, offset + 4, offset + 4 + GetU32(view, offset, TRUE))
       IN  {Slice(comment, 0, Max(IndexOf(comment, EqualsSign), 0))}
             \cup KeysFrom(view, offset + 4 + GetU32(view, offset, TRUE), i + 1, count)

\* Where the vendor string of the payload view ends, -1 when the vendor
\* string or the comment count runs past the payload.
VendorEnd(view) ==
  IF ~CanRead(view, 0, 4) THEN -1
  ELSE IF ~CanRead(view, 4 + GetU32(view, 0, TRUE), 4) THEN -1
  ELSE 4 + GetU32(view, 0, TRUE)

\* The keys of the comments present in the payload view.
PresentKeys(view) ==
  IF VendorEnd(view) = -1 THEN {}
  ELSE KeysFrom(view, VendorEnd(view) + 4, 0, GetU32(view, VendorEnd(view), TRUE))

\* The payload can be parsed in full: the vendor string, the count and every
\* comment it counts lie in it.
FullyParsed(view) == VendorEnd(view) # -1 /\ parseVorbisComment(view).ok

\* The header of the Vorbis comment block setFlacMetadata reads in b: the
\* last one of the chain.
LastVorbis(b) == CHOOSE h \in VorbisHeaders(b, 4) : \A g \in VorbisHeaders(b, 4) : g <= h

\* A set was called on a file with a well-formed chain that holds a Vorbis
\* comment block.
SetOnVorbis == op = "set" /\ WellFormedChain(prev) /\ VorbisHeaders(prev, 4) # {}

\* C28: FLAC set does not silently drop sibling metadata.  When the Vorbis
\* comment block of the input cannot be parsed in full, setFlacMetadata fails
\* with an error; it never returns a buffer whose Vorbis comment block lacks a
\* comment that was present in the block of the input.
C28_FlacKeepsComments ==
  SetOnVorbis =>
    /\ ~FullyParsed(BlockData(prev, LastVorbis(prev))) => outcome # "ok"
    /\ outcome = "ok" =>
         PresentKeys(BlockData(prev, LastVorbis(prev)))
           \subseteq PresentKeys(BlockData(buf, Len(fLaC \o OtherBlocks(prev, 4))))

----------------------------------------------------------------------------
(* The tags of the IFD that setWebpMetadata writes.                        *)

\* No two entries share a tag.
UniqueTags(entries) ==
  \A i, j \in 1..Len(entries) : i # j => entries[i].tag # entries[j].tag

\* The entries that follow the first n are the appended ones: none of them
\* has the tag of one of the first n.
AppendedApart(entries, n) ==
  \A i \in 1..Min(n, Len(entries)) : \A j \in (n + 1)..Len(entries) :
    entries[i].tag # entries[j].tag

\* The entries of the IFD read as old have been written as new.
TagsKept(old, new) ==
  UniqueTags(old) => (UniqueTags(new) /\ AppendedApart(new, Len(old)))

\* C29: unique tags after WEBP set.  If no two entries of the EXIF IFD of the
\* input share a tag, no two entries of the IFD setWebpMetadata writes share
\* a tag, whatever the record, and no appended entry has the tag of an entry
\* that was there.
C29_WebpUniqueTags ==
  (Returned /\ HasExif(prev, FirstExif(prev, 12))) =>
    /\ HasExif(buf, FirstExif(buf, 12))
    /\ TagsKept(TiffOf(prev, FirstExif(prev, 12)).val.entries,
                TiffOf(buf, FirstExif(buf, 12)).val.entries)

----------------------------------------------------------------------------
(* What getFlacMetadata returns.                                           *)

\* v is a string-to-string record: pairs of a key and a value, the keys
\* distinct.
IsRecord(v) ==
  /\ v # Null
  /\ \A i \in 1..Len(v) : Len(v[i]) = 2
  /\ \A i, j \in 1..Len(v) : i # j => v[i][1] # v[j][1]

\* C30: getFlacMetadata always yields a record.  For every buffer with the
\* fLaC signature and a well-formed metadata-block chain, a chain without a
\* Vorbis comment block included, the value getFlacMetadata returns is a
\* string-to-string record, the empty record when there are no comments,
\* never null or undefined.
C30_FlacGetYieldsRecord ==
  (op = "get" /\ WellFormedChain(buf) /\ got.ok) =>
    /\ IsRecord(got.val)
    /\ VorbisHeaders(buf, 4) = {} => got.val = <<>>

====
